---- MODULE Spec2Model ----
(***************************************************************************)
(* Code AI Interpreter (VS Code extension): the explanation client         *)
(* (interpretLines, interpretBlock, interpretLine), the code-unit          *)
(* extractors, the persistent comment renderers and the auto-interpret     *)
(* session controller.                                                     *)
(*                                                                         *)
(* Text is modelled as a sequence of tokens: string concatenation is \o,   *)
(* the empty string is << >>, and a test such as startsWith or includes    *)
(* looks at the tokens.  An optional JSON field is << >> when absent and   *)
(* <<v>> when present.                                                     *)
(***************************************************************************)
EXTENDS Integers, Sequences, FiniteSets, TLC

\* ------------------------------------------------------------------ bounds
MaxCalls == 2

MaxDocLines == 3

MaxSelections == 2

MaxTimers == 2

MaxInvocations == 1

MaxRuns == 2

\* pieces of an explanation text
MaxPieces == 3

\* characters of a line the user types into
MaxLineLength == 3

\* edits of the user in the mapping variant
MaxUserEdits == 2

MaxLongLines == 102

\* ------------------------------------------------------------ text helpers
None == << >>

Some(v) == <<v>>

\* JavaScript truthiness of an optional string field: present and not "".
Truthy(opt) == opt # << >> /\ opt[1] # << >>

\* The phrases (of those the code searches for) that a token contains.
PhrasesIn(tok) ==
    CASE tok = "Server error: " -> {"Server error"}
      [] tok = "Failed to fetch" -> {"Failed to fetch"}
      [] tok = "NetworkError when attempting to fetch resource." -> {"NetworkError"}
      [] tok = "The request was throttled" -> {"The request"}
      [] OTHER -> {}

\* String.prototype.includes for the phrases above.
Includes(s, phrase) == \E i \in 1..Len(s) : phrase \in PhrasesIn(s[i])

\* String.prototype.substring(0, n): the texts of the model are shorter than
\* 100 characters, except the one long body, which is cut.
Substring(s, n) ==
    IF s = <<"LONG250">>
    THEN (IF n = 200 THEN <<"LONG250[0:200]">> ELSE <<"LONG250[0:100]">>)
    ELSE s

\* Array.prototype.join('\n') on an array of strings.
RECURSIVE Join(_)
Join(arr) ==
    IF arr = << >> THEN << >>
    ELSE IF Len(arr) = 1 THEN arr[1]
    ELSE arr[1] \o <<"\n">> \o Join(Tail(arr))

\* --------------------------------------------------------------- JSON model
\* A JSON object with the fields the client reads.
EmptyObj ==
    [error |-> None, message |-> None, body |-> None,
     explanations |-> None, explanation |-> None]

\* A text that JSON.parse accepts (the encoding of obj) ...
Json(obj) == [kind |-> "json", val |-> obj, raw |-> << >>]

\* ... and one that makes JSON.parse throw.
Garbage(raw) == [kind |-> "garbage", val |-> EmptyObj, raw |-> raw]

\* Truthiness of a string holding a text ("" is falsy).
TextTruthy(t) == t.kind = "json" \/ t.raw # << >>

Item(k, e) == [lineNumber |-> k, explanation |-> e]

\* ------------------------------------------------------- configuration
Languages == {"English", "Korean"}

\* ------------------------------------------------------- batch client
\* Outcome of a try block: a thrown Error(msg) or a returned value.
Thrown(msg) == [threw |-> TRUE, msg |-> msg, map |-> << >>, store |-> None]

Returned(map, store) == [threw |-> FALSE, msg |-> << >>, map |-> map, store |-> store]

\* Map.prototype.set
MapSet(m, k, v) == [x \in (DOMAIN m) \cup {k} |-> IF x = k THEN v ELSE m[x]]

EmptyMap == [x \in {} |-> << >>]

\* The forEach of the network path with the tag taken as the index itself.
RECURSIVE SetChecked_Shifted(_, _, _)
SetChecked_Shifted(items, n, m) ==
    IF items = << >> THEN m
    ELSE LET index == items[1].lineNumber IN
         SetChecked_Shifted(Tail(items), n,
            IF index >= 0 /\ index < n THEN MapSet(m, index, items[1].explanation) ELSE m)

\* The forEach of the network path: entries outside the request array are dropped.
RECURSIVE SetChecked(_, _, _)
SetChecked(items, n, m) ==
    IF items = << >> THEN m
    ELSE LET index == items[1].lineNumber - 1 IN
         SetChecked(Tail(items), n,
            IF index >= 0 /\ index < n THEN MapSet(m, index, items[1].explanation) ELSE m)

\* The forEach of the cache-replay path: no range check.
RECURSIVE SetUnchecked(_, _)
SetUnchecked(items, m) ==
    IF items = << >> THEN m
    ELSE SetUnchecked(Tail(items), MapSet(m, items[1].lineNumber - 1, items[1].explanation))

\* cacheKey = `${codeLines.join('\n')}:${language}`
CacheKey(codeLines, lang) == Join(codeLines) \o <<":", lang>>

\* NonOkMessage with the 'Server error: ' prefix of the 2xx path put in front
\* of the body's error field.
NonOkMessage_Prefixed(resp) ==
    LET default == <<"HTTP ">> \o resp.status \o <<": ">> \o resp.statusText IN
    IF resp.text.kind = "json"
    THEN (IF Truthy(resp.text.val.error) THEN <<"Server error: ">> \o resp.text.val.error[1]
          ELSE IF Truthy(resp.text.val.message) THEN resp.text.val.message[1]
          ELSE default)
    ELSE (IF resp.text.raw # << >> THEN Substring(resp.text.raw, 200) ELSE default)

\* The message thrown for a non-2xx response.
NonOkMessage(resp) ==
    LET default == <<"HTTP ">> \o resp.status \o <<": ">> \o resp.statusText IN
    IF resp.text.kind = "json"
    THEN (IF Truthy(resp.text.val.error) THEN resp.text.val.error[1]
          ELSE IF Truthy(resp.text.val.message) THEN resp.text.val.message[1]
          ELSE default)
    ELSE (IF resp.text.raw # << >> THEN Substring(resp.text.raw, 200) ELSE default)

\* UnwrapBody that checks the nested error but forgets `data = bodyData`.
UnwrapBody_NoAssign(data) ==
    IF data.body # None /\ TextTruthy(data.body[1])
    THEN (IF data.body[1].kind # "json"
          THEN [threw |-> TRUE, msg |-> <<"Failed to parse response body">>, data |-> data]
          ELSE IF Truthy(data.body[1].val.error)
          THEN [threw |-> TRUE, msg |-> <<"Server error: ">> \o data.body[1].val.error[1],
                data |-> data]
          ELSE [threw |-> FALSE, msg |-> << >>, data |-> data])
    ELSE [threw |-> FALSE, msg |-> << >>, data |-> data]

\* if (data.body) { ... }: unwrap one level; result is a thrown error or the data.
UnwrapBody(data) ==
    IF data.body # None /\ TextTruthy(data.body[1])
    THEN (IF data.body[1].kind # "json"
          THEN [threw |-> TRUE, msg |-> <<"Failed to parse response body">>, data |-> data]
          ELSE IF Truthy(data.body[1].val.error)
          THEN (LET m == <<"Server error: ">> \o data.body[1].val.error[1] IN
                IF Includes(m, "Server error")
                THEN [threw |-> TRUE, msg |-> m, data |-> data]
                ELSE [threw |-> TRUE, msg |-> <<"Failed to parse response body">>, data |-> data])
          ELSE [threw |-> FALSE, msg |-> << >>, data |-> data.body[1].val])
    ELSE [threw |-> FALSE, msg |-> << >>, data |-> data]

\* The body of the try block of interpretLines from the resolution of fetch on.
TryBatch(codeLines, resp) ==
    IF resp.rejects THEN Thrown(resp.exc)
    ELSE IF ~resp.ok THEN Thrown(NonOkMessage(resp))
    ELSE IF resp.text.kind # "json"
    THEN Thrown(<<"Invalid response format: ">> \o Substring(resp.text.raw, 100))
    ELSE IF Truthy(resp.text.val.error)
    THEN Thrown(<<"Server error: ">> \o resp.text.val.error[1])
    ELSE LET u == UnwrapBody(resp.text.val) IN
         IF u.threw THEN Thrown(u.msg)
         ELSE IF u.data.explanations # None
         THEN Returned(SetChecked(u.data.explanations[1], Len(codeLines), EmptyMap),
                       Some(Json(u.data)))
         ELSE Thrown(<<"Invalid response format: explanations array not found">>)

\* The catch block writing the error to the first line only.
CatchBatch_FirstOnly(codeLines, msg) ==
    [index \in {0} |-> <<"Error: ">> \o (IF msg # << >> THEN msg ELSE <<"Unknown error occurred">>)]

\* The catch block of interpretLines.
CatchBatch(codeLines, msg) ==
    LET m0 == IF msg # << >> THEN msg ELSE <<"Unknown error occurred">>
        errorMessage ==
            IF msg # << >> /\ (Includes(msg, "Failed to fetch") \/ Includes(msg, "NetworkError")
                               \/ Includes(msg, "The request"))
            THEN <<"Network error. Please check your internet connection and try again.">>
            ELSE m0
    IN [index \in 0..(Len(codeLines) - 1) |-> <<"Error: ">> \o errorMessage]

\* What interpretLines returns, and what it stores, once the response is in.
FinishBatch(codeLines, resp) ==
    LET t == TryBatch(codeLines, resp) IN
    IF t.threw THEN [map |-> CatchBatch(codeLines, t.msg), store |-> None, failed |-> TRUE]
    ELSE [map |-> t.map, store |-> t.store, failed |-> FALSE]

\* The cache lookup at the top of interpretLines: hit -> the replayed map.
CacheReplay(cache, key) ==
    IF key \in DOMAIN cache /\ cache[key].kind = "json" /\ cache[key].val.explanations # None
    THEN Some(SetUnchecked(cache[key].val.explanations[1], EmptyMap))
    ELSE None

\* ------------------------------------------------- single-unit client
\* interpretBlock / interpretLine (block and click variant): what the call
\* returns as the explanation once the response is in.
SingleExplanation(resp) ==
    LET t == IF resp.rejects THEN Thrown(resp.exc)
             ELSE IF ~resp.ok THEN Thrown(NonOkMessage(resp))
             ELSE IF resp.text.kind # "json"
             THEN Thrown(<<"Invalid response format: ">> \o Substring(resp.text.raw, 100))
             ELSE IF Truthy(resp.text.val.error)
             THEN Thrown(<<"Server error: ">> \o resp.text.val.error[1])
             ELSE LET u == UnwrapBody(resp.text.val) IN
                  IF u.threw THEN Thrown(u.msg)
                  ELSE Returned(IF Truthy(u.data.explanation) THEN u.data.explanation[1]
                                ELSE <<"Failed to get explanation">>, None)
    IN IF t.threw
       THEN <<"Error: ">> \o (IF t.msg # << >> THEN t.msg ELSE <<"Unknown error occurred">>)
       ELSE t.map

\* ------------------------------------------------- the service (environment)
HttpResp(ok, status, statusText, text) ==
    [rejects |-> FALSE, exc |-> << >>, ok |-> ok, status |-> status,
     statusText |-> statusText, text |-> text]

Ok200(text) == HttpResp(TRUE, <<"200">>, <<"OK">>, text)

Err500(text) == HttpResp(FALSE, <<"500">>, <<"Internal Server Error">>, text)

Reject(msg) ==
    [rejects |-> TRUE, exc |-> msg, ok |-> FALSE, status |-> << >>,
     statusText |-> << >>, text |-> Garbage(<< >>)]

NoResp == Reject(<<"(none)">>)

ExplTok(k) == IF k = 1 THEN <<"e1">> ELSE IF k = 2 THEN <<"e2">> ELSE <<"e3">>

\* explanations for the lines 1..n, in order
FullList(n) == [k \in 1..n |-> Item(k, ExplTok(k))]

ExplObj(list) == [EmptyObj EXCEPT !.explanations = Some(list)]

ErrObj(m) == [EmptyObj EXCEPT !.error = Some(m)]

WrapObj(text) == [EmptyObj EXCEPT !.body = Some(text)]

ErrorTexts == {<<"rate limited">>, <<"The request was throttled">>}

\* The payloads the service may answer a request of n lines with: all lines
\* explained, the last one missing, an entry beyond the request array and an
\* entry before it.
ExplLists(n) ==
    {FullList(n), FullList(n - 1), FullList(n) \o <<Item(n + 1, <<"eX">>)>>,
     <<Item(0, <<"e0">>)>> \o FullList(n)}

Payloads(n) ==
    {ExplObj(l) : l \in ExplLists(n)} \cup {ErrObj(m) : m \in ErrorTexts}
        \cup {[EmptyObj EXCEPT !.explanation = Some(<<"e1">>)]}

Responses(n) ==
    {Ok200(Json(P)) : P \in Payloads(n)}
        \cup {Ok200(Json(WrapObj(Json(P)))) : P \in Payloads(n)}
        \cup {Ok200(Garbage(<<"<html>">>)), Ok200(Json(WrapObj(Garbage(<<"oops">>))))}
        \cup {Err500(Json(ErrObj(m))) : m \in ErrorTexts}
        \cup {Err500(Json([EmptyObj EXCEPT !.message = Some(<<"overloaded">>)])),
              Err500(Garbage(<< >>)), Err500(Garbage(<<"LONG250">>))}
        \cup {Reject(<<"Failed to fetch">>), Reject(<< >>)}

\* The responses the single-unit calls are tried with.
SinglePayloads ==
    {[EmptyObj EXCEPT !.explanation = Some(<<"e1">>)], ErrObj(<<"rate limited">>),
     ExplObj(FullList(1))}

SingleResponses ==
    {Ok200(Json(P)) : P \in SinglePayloads}
        \cup {Ok200(Json(WrapObj(Json(P)))) : P \in SinglePayloads}
        \cup {Ok200(Json(WrapObj(Garbage(<<"oops">>)))),
              Err500(Json(ErrObj(<<"rate limited">>))), Reject(<<"Failed to fetch">>)}

\* The arrays of (trimmed) code lines a command may send.
CodeLineArrays == {<< <<"a">> >>, << <<"a">>, <<"b">> >>}

\* ------------------------------------------------------- code-unit extraction
\* String.prototype.trim: leading and trailing blanks go.
RECURSIVE TrimStart(_)
TrimStart(s) == IF s # << >> /\ s[1] = " " THEN TrimStart(Tail(s)) ELSE s

RECURSIVE TrimEnd(_)
TrimEnd(s) == IF s # << >> /\ s[Len(s)] = " " THEN TrimEnd(SubSeq(s, 1, Len(s) - 1)) ELSE s

Trim(s) == TrimEnd(TrimStart(s))

StartsWith(s, marker) == s # << >> /\ s[1] = marker

\* The line filter of interpretFileLineByLine and interpretSelectedLines.
IsCodeLine(trimmedLine) ==
    /\ trimmedLine # << >>
    /\ ~StartsWith(trimmedLine, "//")
    /\ ~StartsWith(trimmedLine, "/*")
    /\ ~StartsWith(trimmedLine, "*")
    /\ ~StartsWith(trimmedLine, "#")
    /\ ~StartsWith(trimmedLine, "--")
    /\ ~StartsWith(trimmedLine, "'")

\* The line filter of provideInlayHints, parseCodeBlocks and interpretLineAtPosition.
IsHintLine(lineText) ==
    ~(lineText = << >> \/ StartsWith(lineText, "//") \/ StartsWith(lineText, "/*")
        \/ StartsWith(lineText, "*"))

LineUnit(i, code) == [lineNumber |-> i, code |-> code]

\* interpretFileLineByLine: for (i = 0; i < lineCount; i++) collect the code lines.
RECURSIVE FileLines(_, _)
FileLines(doc, i) ==
    IF i >= Len(doc) THEN << >>
    ELSE (IF IsCodeLine(Trim(doc[i + 1])) THEN <<LineUnit(i, Trim(doc[i + 1]))>> ELSE << >>)
            \o FileLines(doc, i + 1)

\* An add that appends the value even when the set has it.
SetAdd_Always(set, x) == Append(set, x)

\* Set.prototype.add, the set kept in insertion order.
SetAdd(set, x) == IF \E k \in 1..Len(set) : set[k] = x THEN set ELSE Append(set, x)

RECURSIVE AddRange(_, _, _)
AddRange(set, i, end) == IF i > end THEN set ELSE AddRange(SetAdd(set, i), i + 1, end)

\* selections.forEach(selection => for (i = start.line; i <= end.line; i++) add(i))
RECURSIVE SelectedLineSet(_, _)
SelectedLineSet(selections, set) ==
    IF selections = << >> THEN set
    ELSE SelectedLineSet(Tail(selections),
                         AddRange(set, selections[1].start, selections[1].end))

\* selectedLines.forEach(lineNumber => ...): the code lines among them.
RECURSIVE SelectedLines(_, _)
SelectedLines(doc, lineNumbers) ==
    IF lineNumbers = << >> THEN << >>
    ELSE LET trimmedLine == Trim(doc[lineNumbers[1] + 1]) IN
         (IF IsCodeLine(trimmedLine) THEN <<LineUnit(lineNumbers[1], trimmedLine)>> ELSE << >>)
            \o SelectedLines(doc, Tail(lineNumbers))

\* the cap of one provider invocation
MaxAutoLines == 100

\* provideInlayHints: the lines a hint is computed for.
RECURSIVE HintLines(_, _)
HintLines(doc, i) ==
    IF ~(i < Len(doc) /\ i < MaxAutoLines) THEN << >>
    ELSE (IF IsHintLine(Trim(doc[i + 1])) THEN <<LineUnit(i, Trim(doc[i + 1]))>> ELSE << >>)
            \o HintLines(doc, i + 1)

Keywords ==
    {"function", "class", "if", "for", "while", "switch", "try", "catch", "finally", "else"}

\* isBlockStart: keyword prefix, or a line ending in '{', or '=>' then '{'.
IsBlockStart(trimmedLine) ==
    \/ (trimmedLine # << >> /\ trimmedLine[1] \in Keywords)
    \/ (trimmedLine # << >> /\ trimmedLine[Len(trimmedLine)] = "{")
    \/ \E a \in 1..Len(trimmedLine) : \E b \in (a + 1)..Len(trimmedLine) :
           /\ trimmedLine[a] = "=>"
           /\ trimmedLine[b] = "{"
           /\ \A k \in (a + 1)..(b - 1) : trimmedLine[k] = " "

CodeBlock(startLine, endLine, code) ==
    [startLine |-> startLine, endLine |-> endLine, code |-> code]

\* The inner loop without the `braceDepth === 0` test at an opening brace.
RECURSIVE ScanChars_AnyDepth(_, _, _, _)
ScanChars_AnyDepth(lines, i, j, st) ==
    IF j > Len(lines[i + 1]) THEN st
    ELSE IF lines[i + 1][j] = "{"
    THEN ScanChars_AnyDepth(lines, i, j + 1,
            [st EXCEPT !.braceDepth = st.braceDepth + 1,
                       !.blockStart = IF IsBlockStart(Trim(lines[i + 1]))
                                      THEN i ELSE st.blockStart])
    ELSE IF lines[i + 1][j] = "}"
    THEN ScanChars_AnyDepth(lines, i, j + 1,
            IF st.braceDepth - 1 = 0 /\ st.blockStart # -1
            THEN [braceDepth |-> 0, blockStart |-> -1,
                  blocks |-> Append(st.blocks,
                      CodeBlock(st.blockStart, i, Join(SubSeq(lines, st.blockStart + 1, i + 1))))]
            ELSE [st EXCEPT !.braceDepth = st.braceDepth - 1])
    ELSE ScanChars_AnyDepth(lines, i, j + 1, st)

\* The inner loop of parseCodeBlocks over the characters of line i.
RECURSIVE ScanChars(_, _, _, _)
ScanChars(lines, i, j, st) ==
    IF j > Len(lines[i + 1]) THEN st
    ELSE IF lines[i + 1][j] = "{"
    THEN ScanChars(lines, i, j + 1,
            [st EXCEPT !.braceDepth = st.braceDepth + 1,
                       !.blockStart = IF st.braceDepth = 0 /\ IsBlockStart(Trim(lines[i + 1]))
                                      THEN i ELSE st.blockStart])
    ELSE IF lines[i + 1][j] = "}"
    THEN ScanChars(lines, i, j + 1,
            IF st.braceDepth - 1 = 0 /\ st.blockStart # -1
            THEN [braceDepth |-> 0, blockStart |-> -1,
                  blocks |-> Append(st.blocks,
                      CodeBlock(st.blockStart, i, Join(SubSeq(lines, st.blockStart + 1, i + 1))))]
            ELSE [st EXCEPT !.braceDepth = st.braceDepth - 1])
    ELSE ScanChars(lines, i, j + 1, st)

\* The outer loop of parseCodeBlocks over the lines lo..hi-1, from the scan
\* state st; the range is walked in two halves, one after the other, the
\* state between them being a record with an integer depth (it may be
\* negative), which keeps the evaluation shallow on long documents.
RECURSIVE ScanLines(_, _, _, _)
ScanLines(lines, lo, hi, st) ==
    IF lo >= hi THEN st
    ELSE IF hi = lo + 1
    THEN (IF ~IsHintLine(Trim(lines[lo + 1])) THEN st ELSE ScanChars(lines, lo, 1, st))
    ELSE LET mid == (lo + hi) \div 2
             half == ScanLines(lines, lo, mid, st)
         IN IF half.braceDepth \in Int THEN ScanLines(lines, mid, hi, half) ELSE half

\* The fallback of parseCodeBlocks: every line a block of its own.
RECURSIVE LineBlocks(_, _)
LineBlocks(lines, i) ==
    IF i >= Len(lines) THEN << >>
    ELSE (IF IsHintLine(Trim(lines[i + 1]))
          THEN <<CodeBlock(i, i, Trim(lines[i + 1]))>> ELSE << >>)
            \o LineBlocks(lines, i + 1)

\* the blocks the brace scan finds
ScannedBlocks(doc) ==
    ScanLines(doc, 0, Len(doc), [braceDepth |-> 0, blockStart |-> -1, blocks |-> << >>]).blocks

parseCodeBlocks(doc) ==
    IF Len(ScannedBlocks(doc)) = 0 THEN LineBlocks(doc, 0) ELSE ScannedBlocks(doc)

\* ------------------------------------------------------- auto-interpret provider
\* interpretLine whose catch block returns the bare error message.
interpretLine_BareMessage(resp) ==
    LET t == IF resp.rejects THEN Thrown(resp.exc)
             ELSE IF resp.text.kind # "json" THEN Thrown(<<"Unexpected token in JSON">>)
             ELSE IF ~resp.ok
             THEN Thrown(IF Truthy(resp.text.val.error) THEN resp.text.val.error[1]
                         ELSE <<"API request failed">>)
             ELSE IF Truthy(resp.text.val.error) THEN Thrown(resp.text.val.error[1])
             ELSE Returned(IF Truthy(resp.text.val.explanation)
                           THEN resp.text.val.explanation[1]
                           ELSE <<"Failed to get explanation">>, None)
    IN IF t.threw THEN t.msg ELSE t.map

\* interpretLine of the auto-interpret variant: the explanation it returns.
interpretLine(resp) ==
    LET t == IF resp.rejects THEN Thrown(resp.exc)
             ELSE IF resp.text.kind # "json" THEN Thrown(<<"Unexpected token in JSON">>)
             ELSE IF ~resp.ok
             THEN Thrown(IF Truthy(resp.text.val.error) THEN resp.text.val.error[1]
                         ELSE <<"API request failed">>)
             ELSE IF Truthy(resp.text.val.error) THEN Thrown(resp.text.val.error[1])
             ELSE Returned(IF Truthy(resp.text.val.explanation)
                           THEN resp.text.val.explanation[1]
                           ELSE <<"Failed to get explanation">>, None)
    IN IF t.threw THEN <<"Error during interpretation: ">> \o t.msg ELSE t.map

DocUri == "file:///doc"

\* cacheKey = `${document.uri.toString()}:${i}:${lineText}:${language}`
LineKey(i, lineText, lang) == <<DocUri, ":", ToString(i), ":">> \o lineText \o <<":", lang>>

\* key.includes(`:${i}:`)
KeyIncludesLine(key, i) ==
    \E p \in 1..(Len(key) - 2) :
        key[p] = ":" /\ key[p + 1] = ToString(i) /\ key[p + 2] = ":"

\* The light-bulb emoji of the hint and comment texts, as one token.
Bulb == "U+1F4A1"

\* new vscode.InlayHint(new Position(i, line.text.length), ` <bulb> ${explanation}`)
Hint(i, line, explanation) ==
    [line |-> i, character |-> Len(line), label |-> <<" ", Bulb, " ">> \o explanation]

\* The for loop of provideInlayHints without the `i < 100` test.
RECURSIVE ProviderLoop_NoCap(_, _, _, _, _, _)
ProviderLoop_NoCap(doc, lineCount, i, hints, cache, lang) ==
    IF ~(i < lineCount)
    THEN [state |-> "done", i |-> i, hints |-> hints, key |-> << >>, line |-> << >>,
          lineCount |-> lineCount, requests |-> 0]
    ELSE IF i >= Len(doc)
    THEN [state |-> "threw", i |-> i, hints |-> << >>, key |-> << >>, line |-> << >>,
          lineCount |-> lineCount, requests |-> 0]
    ELSE LET lineText == Trim(doc[i + 1])
             cacheKey == LineKey(i, lineText, lang)
         IN IF ~IsHintLine(lineText)
            THEN ProviderLoop_NoCap(doc, lineCount, i + 1, hints, cache, lang)
            ELSE IF cacheKey \in DOMAIN cache
            THEN ProviderLoop_NoCap(doc, lineCount, i + 1,
                              Append(hints, Hint(i, doc[i + 1], cache[cacheKey])), cache, lang)
            ELSE [state |-> "await", i |-> i, hints |-> hints, key |-> cacheKey,
                  line |-> doc[i + 1], lineCount |-> lineCount, requests |-> 0]

\* The for loop of provideInlayHints from line i on, up to its next await
\* (a cache miss), its end, or a lineAt past the end of the document.
RECURSIVE ProviderLoop(_, _, _, _, _, _)
ProviderLoop(doc, lineCount, i, hints, cache, lang) ==
    IF ~(i < lineCount /\ i < MaxAutoLines)
    THEN [state |-> "done", i |-> i, hints |-> hints, key |-> << >>, line |-> << >>,
          lineCount |-> lineCount, requests |-> 0]
    ELSE IF i >= Len(doc)
    THEN [state |-> "threw", i |-> i, hints |-> << >>, key |-> << >>, line |-> << >>,
          lineCount |-> lineCount, requests |-> 0]
    ELSE LET lineText == Trim(doc[i + 1])
             cacheKey == LineKey(i, lineText, lang)
         IN IF ~IsHintLine(lineText)
            THEN ProviderLoop(doc, lineCount, i + 1, hints, cache, lang)
            ELSE IF cacheKey \in DOMAIN cache
            THEN ProviderLoop(doc, lineCount, i + 1,
                              Append(hints, Hint(i, doc[i + 1], cache[cacheKey])), cache, lang)
            ELSE [state |-> "await", i |-> i, hints |-> hints, key |-> cacheKey,
                  line |-> doc[i + 1], lineCount |-> lineCount, requests |-> 0]

Requested ==
    [state |-> "requested", i |-> 0, hints |-> << >>, key |-> << >>, line |-> << >>,
     lineCount |-> 0, requests |-> 0]

\* The responses interpretLine is tried with.
LineResponses ==
    {Ok200(Json([EmptyObj EXCEPT !.explanation = Some(<<"e1">>)])),
     Err500(Json(ErrObj(<<"rate limited">>)))}

\* ------------------------------------------------- block command
\* cacheKey = `${document.uri.toString()}:block:${block.startLine}:${block.endLine}:${language}`
BlockKey(block, lang) ==
    <<DocUri, ":", "block", ":", ToString(block.startLine), ":", ToString(block.endLine),
      ":", lang>>

\* The decoration pushed for a block: its position at the end of the block's
\* last line and its text, with the unit and the language of the lookup.
Decoration(doc, block, lang, explanation, fromCache) ==
    [line |-> block.endLine, character |-> Len(doc[block.endLine + 1]),
     contentText |-> <<" // ", Bulb, " ">> \o explanation,
     unit |-> block, language |-> lang, explanation |-> explanation,
     fromCache |-> fromCache]

\* The for loop of interpretFileByBlocks from block i on, up to its next
\* await (a cache miss) or its end.
RECURSIVE BlockLoop(_, _, _, _, _, _)
BlockLoop(doc, blocks, i, decorations, cache, lang) ==
    IF ~(i < Len(blocks))
    THEN [state |-> "done", blocks |-> blocks, i |-> i, decorations |-> decorations,
          key |-> << >>, language |-> lang, requests |-> 0]
    ELSE LET block == blocks[i + 1]
             cacheKey == BlockKey(block, lang)
         IN IF cacheKey \in DOMAIN cache
            THEN BlockLoop(doc, blocks, i + 1,
                           Append(decorations,
                                  Decoration(doc, block, lang, cache[cacheKey], TRUE)),
                           cache, lang)
            ELSE [state |-> "await", blocks |-> blocks, i |-> i, decorations |-> decorations,
                  key |-> cacheKey, language |-> lang, requests |-> 0]

\* The explanation the service gives for a code text in a language.
Explains(code, lang) == <<"explains", " ">> \o code \o <<" ", "in", " ", lang>>

\* The answers of the service to a request for one unit: the explanation of
\* the code sent, or a failure.
ServiceResponses(code, lang) ==
    {Ok200(Json([EmptyObj EXCEPT !.explanation = Some(Explains(code, lang))])),
     Err500(Json(ErrObj(<<"rate limited">>)))}

\* ------------------------------------------------- persistent renderers
\* The brain emoji of the comment prefixes, as one token.
Brain == "U+1F9E0"

\* explanations.get(i) || '': the missing explanation stays empty.
ExplanationOr_Empty(explanations, i) ==
    IF i \in DOMAIN explanations /\ explanations[i] # << >> THEN explanations[i]
    ELSE << >>

\* explanations.get(i) || 'No explanation available'
ExplanationOr(explanations, i) ==
    IF i \in DOMAIN explanations /\ explanations[i] # << >> THEN explanations[i]
    ELSE <<"No explanation available">>

\* interpretLines as one step: the cache replay, or the request with its
\* response; the map it returns and the cache it leaves, the codeLines of the
\* request body, the number of fetch calls, and the explanations array the
\* forEach went through.
interpretLines(codeLines, resp, cache, lang) ==
    LET key == CacheKey(codeLines, lang)
        hit == CacheReplay(cache, key)
    IN IF hit # None
       THEN [map |-> hit[1], cache |-> cache, failed |-> FALSE, codeLines |-> codeLines,
             requests |-> 0, items |-> cache[key].val.explanations[1]]
       ELSE LET f == FinishBatch(codeLines, resp) IN
            [map |-> f.map,
             cache |-> IF f.store # None THEN MapSet(cache, key, f.store[1]) ELSE cache,
             failed |-> f.failed, codeLines |-> codeLines, requests |-> 1,
             items |-> IF f.store # None THEN f.store[1].val.explanations[1] ELSE << >>]

\* getCommentPrefix(document) of the line-by-line variant: commentMap[languageId] || '//'
CommentMap(languageId) ==
    CASE languageId \in {"javascript", "typescript", "javascriptreact", "typescriptreact",
                         "java", "c", "cpp", "csharp", "go", "rust", "swift", "kotlin",
                         "dart", "php", "scss", "less"} -> "//"
      [] languageId \in {"python", "ruby", "shellscript", "yaml", "perl", "powershell"} -> "#"
      [] languageId \in {"html", "xml"} -> "<!--"
      [] languageId = "css" -> "/*"
      [] languageId \in {"sql", "lua"} -> "--"
      [] languageId = "vb" -> "'"
      [] OTHER -> "//"

\* insertCommentBelowLine(editor, lineNumber, explanation): the document after the edit.
insertCommentBelowLine(doc, languageId, lineNumber, explanation) ==
    LET commentPrefix == CommentMap(languageId)
        commentText == <<commentPrefix, " ", Bulb, " ">> \o explanation
        nextLineNumber == lineNumber + 1
    IN IF nextLineNumber < Len(doc) /\ StartsWith(Trim(doc[nextLineNumber + 1]), commentPrefix)
       THEN [doc EXCEPT ![nextLineNumber + 1] = commentText]
       ELSE IF nextLineNumber < Len(doc)
       THEN SubSeq(doc, 1, nextLineNumber) \o <<commentText>>
                \o SubSeq(doc, nextLineNumber + 1, Len(doc))
       ELSE doc \o <<commentText>>

\* The loop of interpretFileLineByLine in ascending order of the units.
RECURSIVE RenderBelowLines_Ascending(_, _, _, _, _)
RenderBelowLines_Ascending(doc, languageId, lines, explanations, i) ==
    IF i < 0 THEN doc
    ELSE LET k == Len(lines) - 1 - i IN
         RenderBelowLines_Ascending(
             insertCommentBelowLine(doc, languageId, lines[k + 1].lineNumber,
                                    ExplanationOr(explanations, k)),
             languageId, lines, explanations, i - 1)

\* for (i = lines.length - 1; i >= 0; i--) await insertCommentBelowLine(...)
RECURSIVE RenderBelowLines(_, _, _, _, _)
RenderBelowLines(doc, languageId, lines, explanations, i) ==
    IF i < 0 THEN doc
    ELSE RenderBelowLines(
             insertCommentBelowLine(doc, languageId, lines[i + 1].lineNumber,
                                    ExplanationOr(explanations, i)),
             languageId, lines, explanations, i - 1)

\* getCommentPrefix(languageId) of the batch variant
getCommentPrefix(languageId) ==
    CASE languageId \in {"python", "shellscript", "bash", "powershell", "yaml", "yml",
                         "ruby", "perl", "lua"} -> <<"#", " ", Brain, " ">>
      [] languageId \in {"html", "xml"} -> <<"<!--", " ", Brain, " ">>
      [] languageId \in {"css", "scss", "less", "sass"} -> <<"/*", " ", Brain, " ">>
      [] languageId = "sql" -> <<"--", " ", Brain, " ">>
      [] OTHER -> <<"//", " ", Brain, " ">>

getCommentSuffix(languageId) ==
    CASE languageId \in {"html", "xml"} -> <<" ", "-->">>
      [] languageId \in {"css", "scss", "less", "sass"} -> <<" ", "*/">>
      [] OTHER -> << >>

CommentPatterns == {"//", "#", "--", "<!--", "/*"}

\* commentPatterns.some(p => trimmed.startsWith(p)) && trimmed.includes(brain)
IsBrainComment(text) ==
    LET trimmed == Trim(text) IN
    /\ \E pattern \in CommentPatterns : StartsWith(trimmed, pattern)
    /\ \E k \in 1..Len(trimmed) : trimmed[k] = Brain

\* while (deleteLine < lineCount && isComment) delete, deleteLine++
RECURSIVE DeletedFrom(_, _)
DeletedFrom(doc, deleteLine) ==
    IF deleteLine < Len(doc) /\ IsBrainComment(doc[deleteLine + 1])
    THEN {deleteLine} \cup DeletedFrom(doc, deleteLine + 1)
    ELSE {}

\* codeLineText.match(/^(\s*)/)[1]
RECURSIVE Indent(_)
Indent(text) == IF text # << >> /\ text[1] = " " THEN <<" ">> \o Indent(Tail(text)) ELSE << >>

\* String.prototype.replace(/p/g, ''): every occurrence of p, found from the
\* left and not overlapping, is removed; what the removal brings together is
\* not looked at again.
RECURSIVE ReplaceAll(_, _)
ReplaceAll(s, p) ==
    IF Len(s) < Len(p) THEN s
    ELSE IF SubSeq(s, 1, Len(p)) = p THEN ReplaceAll(SubSeq(s, Len(p) + 1, Len(s)), p)
    ELSE <<s[1]>> \o ReplaceAll(Tail(s), p)

\* The patterns of the chain of replace calls, in the order of the chain: the
\* five Korean filler phrases (their characters named by code point), then
\* the comment markers. A text is a sequence of characters and of words that
\* hold none of these characters.
FillerPatterns ==
    << <<"U+C124", "U+BA85">>,
       <<"U+C774", " ", "U+CF54", "U+B4DC", "U+B294">>,
       <<"U+CF54", "U+B4DC", "U+B294">>,
       <<"U+D569", "U+B2C8", "U+B2E4">>,
       <<"U+D569", "U+B2C8", "U+B2E4", ".">>,
       <<"/", "/">>, <<"#">>, <<"-", "-">>, <<"<", "!", "-", "-">>,
       <<"/", "*">>, <<"*", "/">> >>

\* .replace(/\n/g, ' ')
BreaksToBlanks(s) == [k \in 1..Len(s) |-> IF s[k] = "\n" THEN " " ELSE s[k]]

\* the chain from the first replace call to the one of the line breaks
RECURSIVE StripFrom(_, _)
StripFrom(s, k) ==
    IF k > Len(FillerPatterns) THEN s ELSE StripFrom(ReplaceAll(s, FillerPatterns[k]), k + 1)

StripFillers(s) == BreaksToBlanks(StripFrom(s, 1))

\* .replace(/\s+/g, ' ')
RECURSIVE CollapseBlanks(_)
CollapseBlanks(s) ==
    IF Len(s) < 2 THEN s
    ELSE IF s[1] = " " /\ s[2] = " " THEN CollapseBlanks(Tail(s))
    ELSE <<s[1]>> \o CollapseBlanks(Tail(s))

\* cleanedExplanation
CleanExplanation(explanation) == Trim(CollapseBlanks(StripFillers(explanation)))

\* commentText of one line; the explanations of the model are shorter than
\* 100 characters, so it is the one-line form.
CommentFor(doc, languageId, lineNumber, explanation) ==
    Indent(doc[lineNumber + 1]) \o getCommentPrefix(languageId)
        \o CleanExplanation(explanation) \o getCommentSuffix(languageId)

\* The characters of the Korean filler phrases.
KoreanChars == {"U+C124", "U+BA85", "U+C774", "U+CF54", "U+B4DC", "U+B294", "U+D569", "U+B2C8", "U+B2E4"}

\* The number of UTF-16 code units of a character or word: what String.length counts.
CharWidth(tok) ==
    IF tok \in {Brain, Bulb} THEN 2
    ELSE IF tok = "\n" \/ tok \in KoreanChars THEN 1
    ELSE Len(tok)

\* String.length
RECURSIVE Width(_)
Width(s) == IF s = << >> THEN 0 ELSE CharWidth(s[1]) + Width(Tail(s))

\* String.prototype.split(' ')
RECURSIVE Split(_)
Split(s) ==
    IF \A k \in 1..Len(s) : s[k] # " " THEN <<s>>
    ELSE LET i == CHOOSE k \in 1..Len(s) : s[k] = " " /\ \A h \in 1..(k - 1) : s[h] # " "
         IN <<SubSeq(s, 1, i - 1)>> \o Split(SubSeq(s, i + 1, Len(s)))

\* const maxLength = 100
MaxLength == 100

\* The for loop over the words: the lines emitted so far and the line in the making.
RECURSIVE WrapWords(_, _, _, _, _, _)
WrapWords(words, commentText, currentLine, indent, commentPrefix, commentSuffix) ==
    IF words = << >> THEN Append(commentText, indent \o currentLine \o commentSuffix)
    ELSE LET word == words[1]
             testLine == currentLine \o (IF currentLine = commentPrefix THEN << >> ELSE <<" ">>)
                            \o word \o commentSuffix
         IN IF Width(testLine) > MaxLength /\ currentLine # commentPrefix
            THEN WrapWords(Tail(words), Append(commentText, indent \o currentLine \o commentSuffix),
                           commentPrefix \o word, indent, commentPrefix, commentSuffix)
            ELSE WrapWords(Tail(words), commentText,
                           currentLine \o (IF currentLine # commentPrefix THEN <<" ">> ELSE << >>)
                               \o word,
                           indent, commentPrefix, commentSuffix)

\* commentText, as the lines it holds
CommentLines(indent, languageId, cleanedExplanation) ==
    LET commentPrefix == getCommentPrefix(languageId)
        commentSuffix == getCommentSuffix(languageId)
    IN IF Width(cleanedExplanation) <= MaxLength
       THEN <<indent \o commentPrefix \o cleanedExplanation \o commentSuffix>>
       ELSE WrapWords(Split(cleanedExplanation), << >>, commentPrefix, indent,
                      commentPrefix, commentSuffix)

\* The document once the editor has applied the deletions and insertions of
\* one edit, all given in the coordinates of the document before the edit.
\* An insertion past the last line is clamped to the end of the document.
RECURSIVE ApplyEdits(_, _, _, _)
ApplyEdits(doc, deleted, inserts, p) ==
    IF p >= Len(doc) THEN << >>
    ELSE LET above == IF p \in DOMAIN inserts THEN <<inserts[p]>> ELSE << >>
             isLast == p = Len(doc) - 1
             text == IF p \in deleted THEN << >> ELSE doc[p + 1]
             here == IF isLast
                     THEN (IF Len(doc) \in DOMAIN inserts
                           THEN <<text \o inserts[Len(doc)], << >> >>
                           ELSE <<text>>)
                     ELSE (IF p \in deleted THEN << >> ELSE <<text>>)
         IN above \o here \o ApplyEdits(doc, deleted, inserts, p + 1)

\* insertCommentsAsExplanations(document, explanations), explanations being
\* the map from line number to text: the document and the set afterwards.
insertCommentsAsExplanations(doc, languageId, explanations, insertedSet) ==
    LET kept == {lineNumber \in DOMAIN explanations : explanations[lineNumber] # << >>}
        deletes == [lineNumber \in kept |->
                       IF lineNumber \in insertedSet THEN DeletedFrom(doc, lineNumber + 1)
                       ELSE {}]
        overlapping == \E a \in kept : \E b \in kept : a # b /\ deletes[a] \cap deletes[b] # {}
        inserts == [q \in {lineNumber + 1 : lineNumber \in kept} |->
                       CommentFor(doc, languageId, q - 1, explanations[q - 1])]
    IN [doc |-> IF overlapping THEN doc
                ELSE ApplyEdits(doc, UNION {deletes[l] : l \in kept}, inserts, 0),
        insertedSet |-> insertedSet \cup kept,
        applied |-> ~overlapping]

\* lineNumberMap.set(line.lineNumber, explanations.get(i) || 'No explanation available')
LineNumberMap(lines, explanations) ==
    [lineNumber \in {lines[k].lineNumber : k \in 1..Len(lines)} |->
        LET k == CHOOSE k \in 1..Len(lines) : lines[k].lineNumber = lineNumber
        IN ExplanationOr(explanations, k - 1)]

\* sortedLines = Array.from(explanations.keys()).sort((a, b) => b - a)
RECURSIVE SortedLines(_)
SortedLines(keys) ==
    IF keys = {} THEN << >>
    ELSE LET top == CHOOSE a \in keys : \A b \in keys : b <= a
         IN <<top>> \o SortedLines(keys \ {top})

\* ------------------------------------------------------- documents
\* The line texts documents are built from.
LineTexts ==
    {<< >>, <<" ", "a">>, <<"b">>,
     <<"//", "c">>, <<"/*", "c">>, <<" ", "*", "c">>, <<"#", "c">>, <<"--", "c">>, <<"'", "c">>,
     <<"//", "}">>,
     <<"function", "{">>, <<"}">>, <<"a", "{", "}">>, <<"a", "=>", " ", "{", "b", "}">>}

Docs == UNION {[1..n -> LineTexts] : n \in 1..MaxDocLines}

\* The documents, languages and responses of the persistent renderers.
RenderLineTexts == {<< >>, <<" ", "a">>, <<"b">>, <<"//", "c">>}

RenderDocs == UNION {[1..n -> RenderLineTexts] : n \in 1..MaxDocLines}

RenderLanguageIds == {"plaintext", "python", "html"}

RenderResponses(n) ==
    {Ok200(Json(ExplObj(FullList(n)))),
     Ok200(Json(ExplObj(FullList(n - 1)))),
     Ok200(Json(ExplObj([k \in 1..n |->
                            IF k = 1 THEN Item(1, <<"e1", " ", "#", " ", "x">>)
                            ELSE Item(k, ExplTok(k))]))),
     Err500(Json(ErrObj(<<"rate limited">>)))}

\* A selection: its first and last line, and whether it is just a cursor.
Selection(start, end, isEmpty) == [start |-> start, end |-> end, isEmpty |-> isEmpty]

SelectionsOf(doc) ==
    LET ranges == {Selection(a, b, FALSE) : a \in 0..(Len(doc) - 1), b \in 0..(Len(doc) - 1)}
                     \cap {r \in [start : 0..(Len(doc) - 1), end : 0..(Len(doc) - 1),
                                  isEmpty : {FALSE}] : r.start <= r.end}
        cursors == {Selection(a, a, TRUE) : a \in 0..(Len(doc) - 1)}
    IN UNION {[1..n -> ranges \cup cursors] : n \in 1..MaxSelections}

\* =====================================================================
\* State
\* =====================================================================
VARIABLES
    language,             \* codeAIInterpreter.interpretationLanguage
    interpretationCache,  \* the batch cache of interpretLines: key -> stored text
    calls,                \* the client calls and configuration changes so far
    clock,                \* logical time of the client events
    document,             \* the lines of the active editor's document
    units,                \* the units the last extraction produced
    mode,                 \* the extraction that produced them
    isAutoInterpretEnabled,
    inlayHintsProvider,   \* "null" or the registration's disposable
    liveProviders,        \* number of hint providers registered with the editor
    statusBarText,        \* statusBarItem.text
    lineCache,            \* interpretationCache of the auto-interpret variant
    activeEditor,         \* vscode.window.activeTextEditor is set
    timers,               \* pending setTimeout callbacks
    invocations,          \* provideInlayHints invocations not yet returned
    lastEvent,            \* the handler that ran last and what it asked of the editor
    returned,             \* the last finished provideInlayHints: the lines of its hints, its requests
    languageId,           \* document.languageId
    insertedComments,     \* insertedComments.get(uri): lines known to carry a comment
    runs,                 \* the persistent interpretation commands run so far
    blockInterpretationCache,  \* the block cache: key -> explanation
    blockRun,             \* the interpretFileByBlocks command in progress, or the last one
    positionCall,         \* the interpretLineAtPosition call waiting for its answer, if any
    commentInput,         \* an explanation, the indentation and the languageId it is written for
    commentText,          \* the comment lines written for it
    inlayHintsData,       \* inlayHintsData.get(uri): line number -> explanation
    repaint,              \* the insert-then-delete edit of updateInlayHints in progress
    mappingHints,         \* what the last provideInlayHints of the mapping variant returned
    userEdits             \* number of edits the user has made

clientVars == <<language, interpretationCache, calls, clock>>

extractVars == <<units, mode>>

ctlVars ==
    <<isAutoInterpretEnabled, inlayHintsProvider, liveProviders, statusBarText, lineCache,
      activeEditor, timers, invocations, lastEvent, returned>>

renderVars == <<languageId, insertedComments, runs>>

blockVars == <<blockInterpretationCache, blockRun, positionCall>>

commentVars == <<commentInput, commentText>>

ephemeralVars == <<inlayHintsData, repaint, mappingHints, userEdits>>

vars ==
    <<language, interpretationCache, calls, clock, document, units, mode,
      isAutoInterpretEnabled, inlayHintsProvider, liveProviders, statusBarText, lineCache,
      activeEditor, timers, invocations, lastEvent, returned, languageId, insertedComments,
      runs, blockInterpretationCache, blockRun, positionCall, commentInput, commentText,
      inlayHintsData, repaint, mappingHints, userEdits>>

\* what the client, the extractors and the controller leave alone
clientFrame == <<document, extractVars, ctlVars, renderVars, blockVars,
                 commentVars, ephemeralVars>>

extractFrame == <<document, clientVars, ctlVars, renderVars, blockVars,
                  commentVars, ephemeralVars>>

ctlFrame == <<interpretationCache, calls, clock, extractVars, renderVars, blockVars,
              commentVars, ephemeralVars>>

renderFrame == <<language, calls, clock, extractVars, ctlVars, languageId, blockVars,
                 commentVars, ephemeralVars>>

blockFrame ==
    <<language, document, interpretationCache, calls, clock, extractVars, ctlVars, renderVars,
      commentVars, ephemeralVars>>

\* The parts of the state a specification does not use stay as constructed.
ExtractIdle ==
    /\ units = << >>
    /\ mode = "none"

RenderIdle ==
    /\ languageId = "plaintext"
    /\ insertedComments = {}
    /\ runs = << >>

NoBlockRun ==
    [state |-> "none", blocks |-> << >>, i |-> 0, decorations |-> << >>, key |-> << >>,
     language |-> "", requests |-> 0]

NoPositionCall == [state |-> "none", lineNumber |-> 0, lineText |-> << >>, language |-> ""]

BlockIdle ==
    /\ blockInterpretationCache = EmptyMap
    /\ blockRun = NoBlockRun
    /\ positionCall = NoPositionCall

NoComment == [explanation |-> << >>, indent |-> << >>, languageId |-> ""]

CommentIdle ==
    /\ commentInput = NoComment
    /\ commentText = << >>

\* No insert-then-delete edit is under way. While one is, `space` follows the
\* inserted blank through the user's edits ("gone" once its line is deleted).
NoRepaint ==
    [state |-> "idle", endPosition |-> [line |-> 0, character |-> 0],
     space |-> [line |-> 0, character |-> 0], gone |-> FALSE]

EphemeralIdle ==
    /\ inlayHintsData = EmptyMap
    /\ repaint = NoRepaint
    /\ mappingHints = << >>
    /\ userEdits = 0

NoEvent == [name |-> "activate", effects |-> {}]

NoReturn == [lines |-> << >>, requests |-> 0]

\* the lines of the hints an invocation returns
HintedLines(hints) == [h \in 1..Len(hints) |-> hints[h].line]

CtlIdle ==
    /\ isAutoInterpretEnabled = FALSE
    /\ inlayHintsProvider = "null"
    /\ liveProviders = 0
    /\ statusBarText = "$(circle-slash) Interpretation Off"
    /\ lineCache = EmptyMap
    /\ activeEditor = TRUE
    /\ timers = << >>
    /\ invocations = << >>
    /\ lastEvent = NoEvent
    /\ returned = NoReturn

ClientIdle ==
    /\ language = "English"
    /\ interpretationCache = EmptyMap
    /\ calls = << >>
    /\ clock = 0

NoCall ==
    [kind |-> "none", codeLines |-> << >>, language |-> "", key |-> << >>,
     phase |-> "returned", fromCache |-> FALSE, fetched |-> FALSE,
     resp |-> NoResp, failed |-> FALSE, stored |-> FALSE,
     map |-> EmptyMap, explanation |-> << >>, rejected |-> FALSE,
     startT |-> 0, endT |-> 0]

\* ---------------------------------------------------------- interpretLines
\* interpretLines that joins a call in flight for the same key instead of
\* sending a request of its own.
InterpretLinesCall_Joins(codeLines) ==
    /\ Len(calls) < MaxCalls
    /\ LET key == CacheKey(codeLines, language)
           hit == CacheReplay(interpretationCache, key)
       IN calls' = Append(calls,
              [NoCall EXCEPT !.kind = "batch", !.codeLines = codeLines,
                             !.language = language, !.key = key,
                             !.phase = IF hit # None THEN "returned" ELSE "awaiting",
                             !.fromCache = hit # None,
                             !.fetched = (hit = None
                                          /\ \A c \in 1..Len(calls) :
                                                 ~(calls[c].phase = "awaiting"
                                                   /\ calls[c].key = key)),
                             !.map = IF hit # None THEN hit[1] ELSE EmptyMap,
                             !.startT = clock + 1,
                             !.endT = IF hit # None THEN clock + 1 ELSE 0])
    /\ clock' = clock + 1
    /\ UNCHANGED <<language, interpretationCache, clientFrame>>

\* interpretLines up to its await: cache replay, or fetch issued.
InterpretLinesCall(codeLines) ==
    /\ Len(calls) < MaxCalls
    /\ LET key == CacheKey(codeLines, language)
           hit == CacheReplay(interpretationCache, key)
       IN calls' = Append(calls,
              [NoCall EXCEPT !.kind = "batch", !.codeLines = codeLines,
                             !.language = language, !.key = key,
                             !.phase = IF hit # None THEN "returned" ELSE "awaiting",
                             !.fromCache = hit # None, !.fetched = (hit = None),
                             !.map = IF hit # None THEN hit[1] ELSE EmptyMap,
                             !.startT = clock + 1,
                             !.endT = IF hit # None THEN clock + 1 ELSE 0])
    /\ clock' = clock + 1
    /\ UNCHANGED <<language, interpretationCache, clientFrame>>

\* interpretLines from the resolution of its fetch to its return.
InterpretLinesResume(i, resp) ==
    /\ calls[i].kind = "batch"
    /\ calls[i].phase = "awaiting"
    /\ LET f == FinishBatch(calls[i].codeLines, resp) IN
       /\ calls' = [calls EXCEPT ![i].phase = "returned", ![i].resp = resp,
                                 ![i].failed = f.failed, ![i].stored = (f.store # None),
                                 ![i].map = f.map, ![i].endT = clock + 1]
       /\ interpretationCache' =
              IF f.store # None
              THEN MapSet(interpretationCache, calls[i].key, f.store[1])
              ELSE interpretationCache
    /\ clock' = clock + 1
    /\ UNCHANGED <<language, clientFrame>>

\* onDidChangeConfiguration of the line-by-line variant: the setting changes
\* and the handler clears the batch cache.
ChangeLanguage(l) ==
    /\ l # language
    /\ Len(calls) < MaxCalls
    /\ language' = l
    /\ interpretationCache' = EmptyMap
    /\ calls' = Append(calls,
              [NoCall EXCEPT !.kind = "config", !.language = l,
                             !.startT = clock + 1, !.endT = clock + 1])
    /\ clock' = clock + 1
    /\ UNCHANGED clientFrame

\* interpretBlock(blockCode) and interpretLine(codeLine, lineNumber), with the
\* response the service gives.
SingleCall(fn, resp) ==
    /\ Len(calls) < MaxCalls
    /\ calls' = Append(calls,
              [NoCall EXCEPT !.kind = fn, !.language = language, !.fetched = TRUE,
                             !.resp = resp, !.explanation = SingleExplanation(resp),
                             !.startT = clock + 1, !.endT = clock + 1])
    /\ clock' = clock + 1
    /\ UNCHANGED <<language, interpretationCache, clientFrame>>

\* interpretLine(codeLine, lineNumber) of the auto-interpret variant, with the
\* response the service gives; the promise it returns is never rejected, the
\* whole body being inside try/catch.
AutoInterpretLineCall(resp) ==
    /\ Len(calls) < MaxCalls
    /\ calls' = Append(calls,
              [NoCall EXCEPT !.kind = "autoInterpretLine", !.language = language,
                             !.fetched = TRUE, !.resp = resp,
                             !.explanation = interpretLine(resp),
                             !.startT = clock + 1, !.endT = clock + 1])
    /\ clock' = clock + 1
    /\ UNCHANGED <<language, interpretationCache, clientFrame>>

\* The outcomes the single-unit calls are tried with: transport failures,
\* non-2xx answers, unparsable bodies, error fields, missing explanations.
SingleOutcomes ==
    SingleResponses
        \cup {Ok200(Garbage(<<"<html>">>)), Err500(Garbage(<< >>)),
              Err500(Json([EmptyObj EXCEPT !.message = Some(<<"overloaded">>)])),
              Reject(<< >>), Ok200(Json(EmptyObj))}

ClientInit ==
    /\ ClientIdle
    /\ RenderIdle
    /\ BlockIdle
    /\ CommentIdle
    /\ EphemeralIdle
    /\ document = << << >> >>
    /\ ExtractIdle
    /\ CtlIdle

ClientNext ==
    \/ \E codeLines \in CodeLineArrays : InterpretLinesCall(codeLines)
    \/ \E i \in 1..Len(calls) : \E resp \in Responses(Len(calls[i].codeLines)) :
           InterpretLinesResume(i, resp)
    \/ \E l \in Languages : ChangeLanguage(l)
    \/ \E fn \in {"interpretBlock", "interpretLine"} : \E resp \in SingleResponses :
           SingleCall(fn, resp)

SpecClient == ClientInit /\ [][ClientNext]_vars

SingleNext ==
    \/ \E fn \in {"interpretBlock", "interpretLine"} : \E resp \in SingleOutcomes :
           SingleCall(fn, resp)
    \/ \E resp \in SingleOutcomes : AutoInterpretLineCall(resp)

SpecSingle == ClientInit /\ [][SingleNext]_vars

\* =====================================================================
\* The extractors, each applied to a document
\* =====================================================================
ExtractFileLines ==
    /\ mode = "none"
    /\ units' = FileLines(document, 0)
    /\ mode' = "file"
    /\ UNCHANGED extractFrame

\* interpretSelectedLines up to the collection of the lines
ExtractSelectedLines(selections) ==
    /\ mode = "none"
    /\ ~(Len(selections) = 0 \/ \A k \in 1..Len(selections) : selections[k].isEmpty)
    /\ units' = SelectedLines(document, SelectedLineSet(selections, << >>))
    /\ mode' = "selection"
    /\ UNCHANGED extractFrame

ExtractHintLines ==
    /\ mode = "none"
    /\ units' = HintLines(document, 0)
    /\ mode' = "auto"
    /\ UNCHANGED extractFrame

ExtractCodeBlocks ==
    /\ mode = "none"
    /\ units' = parseCodeBlocks(document)
    /\ mode' = IF Len(ScannedBlocks(document)) = 0 THEN "blockFallback" ELSE "blocks"
    /\ UNCHANGED extractFrame

ExtractInit ==
    /\ RenderIdle
    /\ BlockIdle
    /\ CommentIdle
    /\ EphemeralIdle
    /\ document \in Docs
    /\ units = << >>
    /\ mode = "none"
    /\ ClientIdle
    /\ CtlIdle

ExtractNext ==
    \/ ExtractFileLines
    \/ \E selections \in SelectionsOf(document) : ExtractSelectedLines(selections)
    \/ ExtractHintLines
    \/ ExtractCodeBlocks

SpecExtract == ExtractInit /\ [][ExtractNext]_vars

\* =====================================================================
\* The session controller and the auto-interpret provider
\* =====================================================================
Event(name, effects) == [name |-> name, effects |-> effects]

RemoveAt(seq, k) == SubSeq(seq, 1, k - 1) \o SubSeq(seq, k + 1, Len(seq))

\* vscode.commands.executeCommand('vscode.executeInlayHintProvider', uri)
RequestRepaint(invs) == Append(invs, Requested)

\* toggleAutoInterpret without the interpretationCache.clear() of the disable branch.
ToggleAutoInterpret_KeepsCache ==
    /\ (~isAutoInterpretEnabled /\ activeEditor => Len(invocations) < MaxInvocations)
    /\ isAutoInterpretEnabled' = ~isAutoInterpretEnabled
    /\ IF isAutoInterpretEnabled'
       THEN /\ inlayHintsProvider' = "registration"
            /\ liveProviders' = liveProviders + 1
            /\ statusBarText' = "$(check) Interpretation On"
            /\ invocations' = IF activeEditor THEN RequestRepaint(invocations) ELSE invocations
            /\ lastEvent' = Event("toggle", {"register"}
                                      \cup (IF activeEditor THEN {"repaint"} ELSE {}))
            /\ UNCHANGED lineCache
       ELSE /\ inlayHintsProvider' = "null"
            /\ liveProviders' = IF inlayHintsProvider # "null" THEN liveProviders - 1
                                ELSE liveProviders
            /\ statusBarText' = "$(circle-slash) Interpretation Off"
            /\ lineCache' = lineCache
            /\ lastEvent' = Event("toggle", {"clearCache"}
                                      \cup (IF inlayHintsProvider # "null" THEN {"dispose"} ELSE {}))
            /\ UNCHANGED invocations
    /\ UNCHANGED <<language, document, activeEditor, timers, returned, ctlFrame>>

\* toggleAutoInterpret whose disable branch forgets the registration without disposing it.
ToggleAutoInterpret_NoDispose ==
    /\ (~isAutoInterpretEnabled /\ activeEditor => Len(invocations) < MaxInvocations)
    /\ isAutoInterpretEnabled' = ~isAutoInterpretEnabled
    /\ IF isAutoInterpretEnabled'
       THEN /\ inlayHintsProvider' = "registration"
            /\ liveProviders' = liveProviders + 1
            /\ statusBarText' = "$(check) Interpretation On"
            /\ invocations' = IF activeEditor THEN RequestRepaint(invocations) ELSE invocations
            /\ lastEvent' = Event("toggle", {"register"}
                                      \cup (IF activeEditor THEN {"repaint"} ELSE {}))
            /\ UNCHANGED lineCache
       ELSE /\ inlayHintsProvider' = "null"
            /\ liveProviders' = liveProviders
            /\ statusBarText' = "$(circle-slash) Interpretation Off"
            /\ lineCache' = EmptyMap
            /\ lastEvent' = Event("toggle", {"clearCache"}
                                      \cup {})
            /\ UNCHANGED invocations
    /\ UNCHANGED <<language, document, activeEditor, timers, returned, ctlFrame>>

\* toggleAutoInterpret(context)
ToggleAutoInterpret ==
    /\ (~isAutoInterpretEnabled /\ activeEditor => Len(invocations) < MaxInvocations)
    /\ isAutoInterpretEnabled' = ~isAutoInterpretEnabled
    /\ IF isAutoInterpretEnabled'
       THEN /\ inlayHintsProvider' = "registration"
            /\ liveProviders' = liveProviders + 1
            /\ statusBarText' = "$(check) Interpretation On"
            /\ invocations' = IF activeEditor THEN RequestRepaint(invocations) ELSE invocations
            /\ lastEvent' = Event("toggle", {"register"}
                                      \cup (IF activeEditor THEN {"repaint"} ELSE {}))
            /\ UNCHANGED lineCache
       ELSE /\ inlayHintsProvider' = "null"
            /\ liveProviders' = IF inlayHintsProvider # "null" THEN liveProviders - 1
                                ELSE liveProviders
            /\ statusBarText' = "$(circle-slash) Interpretation Off"
            /\ lineCache' = EmptyMap
            /\ lastEvent' = Event("toggle", {"clearCache"}
                                      \cup (IF inlayHintsProvider # "null" THEN {"dispose"} ELSE {}))
            /\ UNCHANGED invocations
    /\ UNCHANGED <<language, document, activeEditor, timers, returned, ctlFrame>>

\* onDidChangeConfiguration without its interpretationCache.clear().
ChangeConfiguration_KeepsCache(l) ==
    /\ l # language
    /\ Len(timers) < MaxTimers
    /\ language' = l
    /\ lineCache' = lineCache
    /\ timers' = IF isAutoInterpretEnabled /\ activeEditor
                 THEN Append(timers, "config300") ELSE timers
    /\ lastEvent' = Event("config", {"clearCache"}
                              \cup (IF lineCache # EmptyMap THEN {"dropEntries"} ELSE {})
                              \cup (IF isAutoInterpretEnabled /\ activeEditor
                                    THEN {"timer"} ELSE {}))
    /\ UNCHANGED <<document, isAutoInterpretEnabled, inlayHintsProvider, liveProviders,
                   statusBarText, activeEditor, invocations, returned, ctlFrame>>

\* onDidChangeConfiguration for codeAIInterpreter.interpretationLanguage
ChangeConfiguration(l) ==
    /\ l # language
    /\ Len(timers) < MaxTimers
    /\ language' = l
    /\ lineCache' = EmptyMap
    /\ timers' = IF isAutoInterpretEnabled /\ activeEditor
                 THEN Append(timers, "config300") ELSE timers
    /\ lastEvent' = Event("config", {"clearCache"}
                              \cup (IF lineCache # EmptyMap THEN {"dropEntries"} ELSE {})
                              \cup (IF isAutoInterpretEnabled /\ activeEditor
                                    THEN {"timer"} ELSE {}))
    /\ UNCHANGED <<document, isAutoInterpretEnabled, inlayHintsProvider, liveProviders,
                   statusBarText, activeEditor, invocations, returned, ctlFrame>>

\* onDidChangeActiveTextEditor
ChangeActiveEditor(present) ==
    /\ present # activeEditor
    /\ Len(timers) < MaxTimers
    /\ activeEditor' = present
    /\ timers' = IF isAutoInterpretEnabled /\ present
                 THEN Append(timers, "editor500") ELSE timers
    /\ lastEvent' = Event("editor", IF isAutoInterpretEnabled /\ present
                                    THEN {"timer"} ELSE {})
    /\ UNCHANGED <<language, document, isAutoInterpretEnabled, inlayHintsProvider,
                   liveProviders, statusBarText, lineCache, invocations, returned, ctlFrame>>

\* The deletion for one edited line, the next line's keys taken for its own.
PruneLine_Next(cache, i) ==
    [key \in {k \in DOMAIN cache : ~KeyIncludesLine(k, i + 1)} |-> cache[key]]

\* what is left once the handler has deleted the keys of one edited line
PruneLine(cache, i) ==
    [key \in {k \in DOMAIN cache : ~KeyIncludesLine(k, i)} |-> cache[key]]

\* for (let i = startLine; i <= endLine; i++) delete the keys of line i
RECURSIVE PruneRange(_, _, _)
PruneRange(cache, i, endLine) ==
    IF i > endLine THEN cache ELSE PruneRange(PruneLine(cache, i), i + 1, endLine)

\* onDidChangeTextDocument: one change whose range is the lines startLine
\* to endLine of the active document, each of them getting the new text.
ChangeDocument(startLine, endLine, text) ==
    /\ activeEditor
    /\ Len(timers) < MaxTimers
    /\ startLine <= endLine
    /\ \E i \in startLine..endLine : text # document[i + 1]
    /\ document' = [i \in 1..Len(document) |->
                       IF startLine < i /\ i <= endLine + 1 THEN text ELSE document[i]]
    /\ lineCache' = IF isAutoInterpretEnabled THEN PruneRange(lineCache, startLine, endLine)
                    ELSE lineCache
    /\ timers' = IF isAutoInterpretEnabled THEN Append(timers, "document1000") ELSE timers
    /\ lastEvent' = Event("document",
                          IF isAutoInterpretEnabled
                          THEN {"prune", "timer"}
                                  \cup (IF PruneRange(lineCache, startLine, endLine) # lineCache
                                        THEN {"dropEntries"} ELSE {})
                          ELSE {})
    /\ UNCHANGED <<language, isAutoInterpretEnabled, inlayHintsProvider, liveProviders,
                   statusBarText, activeEditor, invocations, returned, ctlFrame>>

\* A setTimeout callback runs.
TimerFires(k) ==
    /\ Len(invocations) < MaxInvocations
    /\ timers' = RemoveAt(timers, k)
    /\ LET asks == timers[k] # "document1000" \/ activeEditor IN
       /\ invocations' = IF asks THEN RequestRepaint(invocations) ELSE invocations
       /\ lastEvent' = Event("timeout", IF asks THEN {"repaint"} ELSE {})
    /\ UNCHANGED <<language, document, isAutoInterpretEnabled, inlayHintsProvider,
                   liveProviders, statusBarText, lineCache, activeEditor, returned, ctlFrame>>

\* The editor serves a repaint request: provideInlayHints of the registered
\* provider runs up to its first await or to its return.
ProviderBegin(k) ==
    /\ invocations[k].state = "requested"
    /\ LET run == IF liveProviders = 0 \/ ~isAutoInterpretEnabled
                  THEN [Requested EXCEPT !.state = "done"]
                  ELSE ProviderLoop(document, Len(document), 0, << >>, lineCache, language)
       IN /\ invocations' = IF run.state = "await"
                            THEN [invocations EXCEPT ![k] = [run EXCEPT !.requests = 1]]
                            ELSE RemoveAt(invocations, k)
          /\ returned' = IF run.state = "done"
                         THEN [lines |-> HintedLines(run.hints), requests |-> 0]
                         ELSE returned
          /\ lastEvent' = Event("provider", IF run.state = "await" THEN {"fetch"}
                                            ELSE IF run.state = "done" THEN {"hints"} ELSE {})
    /\ UNCHANGED <<language, document, isAutoInterpretEnabled, inlayHintsProvider,
                   liveProviders, statusBarText, lineCache, activeEditor, timers, ctlFrame>>

\* interpretLine resolves: the explanation is cached and the loop goes on.
ProviderResume(k, resp) ==
    /\ invocations[k].state = "await"
    /\ LET inv == invocations[k]
           explanation == interpretLine(resp)
           cache == MapSet(lineCache, inv.key, explanation)
           run == ProviderLoop(document, inv.lineCount, inv.i + 1,
                               Append(inv.hints, Hint(inv.i, inv.line, explanation)),
                               cache, language)
       IN /\ lineCache' = cache
          /\ invocations' = IF run.state = "await"
                            THEN [invocations EXCEPT
                                     ![k] = [run EXCEPT !.requests = inv.requests + 1]]
                            ELSE RemoveAt(invocations, k)
          /\ returned' = IF run.state = "done"
                         THEN [lines |-> HintedLines(run.hints), requests |-> inv.requests]
                         ELSE returned
          /\ lastEvent' = Event("provider", {"store"}
                                    \cup (IF run.state = "await" THEN {"fetch"}
                                          ELSE IF run.state = "done" THEN {"hints"} ELSE {}))
    /\ UNCHANGED <<language, document, isAutoInterpretEnabled, inlayHintsProvider,
                   liveProviders, statusBarText, activeEditor, timers, ctlFrame>>

CtlLineTexts == {<<" ", "a">>, << >>}

CtlDocs == [1..2 -> CtlLineTexts]

CtlInit ==
    /\ CtlIdle
    /\ RenderIdle
    /\ BlockIdle
    /\ CommentIdle
    /\ EphemeralIdle
    /\ language = "English"
    /\ document \in CtlDocs
    /\ interpretationCache = EmptyMap
    /\ calls = << >>
    /\ clock = 0
    /\ ExtractIdle

CtlNext ==
    \/ ToggleAutoInterpret
    \/ \E l \in Languages : ChangeConfiguration(l)
    \/ \E present \in BOOLEAN : ChangeActiveEditor(present)
    \/ \E startLine \in 0..(Len(document) - 1) : \E endLine \in 0..(Len(document) - 1) :
           \E text \in CtlLineTexts : ChangeDocument(startLine, endLine, text)
    \/ \E k \in 1..Len(timers) : TimerFires(k)
    \/ \E k \in 1..Len(invocations) : ProviderBegin(k)
    \/ \E k \in 1..Len(invocations) : \E resp \in LineResponses : ProviderResume(k, resp)

SpecCtl == CtlInit /\ [][CtlNext]_vars

\* --------------------------------------------------- long documents
\* Documents around the 100-line cap of the provider: every line a code
\* line, or every other line blank.
LongDocs ==
    {[k \in 1..n |-> <<"a">>] : n \in 99..MaxLongLines}
        \cup {[k \in 1..MaxLongLines |-> IF k % 2 = 0 THEN <<"a">> ELSE << >>]}

LongResponses == {Ok200(Json([EmptyObj EXCEPT !.explanation = Some(<<"e1">>)]))}

\* The session just after the toggle has switched auto-interpret on with an
\* editor open on a long document.
LongInit ==
    /\ document \in LongDocs
    /\ language = "English"
    /\ isAutoInterpretEnabled = TRUE
    /\ inlayHintsProvider = "registration"
    /\ liveProviders = 1
    /\ statusBarText = "$(check) Interpretation On"
    /\ lineCache = EmptyMap
    /\ activeEditor = TRUE
    /\ timers = << >>
    /\ invocations = <<Requested>>
    /\ lastEvent = Event("toggle", {"register", "repaint"})
    /\ returned = NoReturn
    /\ interpretationCache = EmptyMap
    /\ calls = << >>
    /\ clock = 0
    /\ ExtractIdle
    /\ RenderIdle
    /\ BlockIdle
    /\ CommentIdle
    /\ EphemeralIdle

LongNext ==
    \/ \E k \in 1..Len(invocations) : ProviderBegin(k)
    \/ \E k \in 1..Len(invocations) : \E resp \in LongResponses : ProviderResume(k, resp)
    \/ ExtractFileLines
    \/ ExtractCodeBlocks

SpecLong == LongInit /\ [][LongNext]_vars

\* =====================================================================
\* The session of the block variant: the controller, the provider and the
\* interpretFileByBlocks command
\* =====================================================================
\* interpretFileByBlocks() up to its first await or to its end; the command
\* is started when the one before it has finished.
InterpretFileByBlocks ==
    /\ activeEditor
    /\ blockRun.state # "await"
    /\ LET blocks == parseCodeBlocks(document)
           run == BlockLoop(document, blocks, 0, << >>, blockInterpretationCache, language)
       IN blockRun' = [run EXCEPT !.requests = IF run.state = "await" THEN 1 ELSE 0]
    /\ UNCHANGED <<blockInterpretationCache, positionCall, blockFrame>>

\* interpretBlock resolves: the explanation is cached, the decoration is
\* pushed and the loop goes on.
InterpretBlockResume(resp) ==
    /\ blockRun.state = "await"
    /\ LET block == blockRun.blocks[blockRun.i + 1]
           explanation == SingleExplanation(resp)
           cache == MapSet(blockInterpretationCache, blockRun.key, explanation)
           next == BlockLoop(document, blockRun.blocks, blockRun.i + 1,
                             Append(blockRun.decorations,
                                    Decoration(document, block, blockRun.language,
                                               explanation, FALSE)),
                             cache, language)
       IN /\ blockInterpretationCache' = cache
          /\ blockRun' = [next EXCEPT !.requests = blockRun.requests
                                         + (IF next.state = "await" THEN 1 ELSE 0)]
    /\ UNCHANGED <<positionCall, blockFrame>>

\* the language a pending request was made in: the last field of its key
KeyLanguage(key) == key[Len(key)]

\* A session on a document that is one block on one line.
SessionDocs == {<< <<"if", "{", "}">> >>}

SessionInit ==
    /\ CtlIdle
    /\ RenderIdle
    /\ BlockIdle
    /\ CommentIdle
    /\ EphemeralIdle
    /\ language = "English"
    /\ document \in SessionDocs
    /\ interpretationCache = EmptyMap
    /\ calls = << >>
    /\ clock = 0
    /\ ExtractIdle

\* The session of the block variant: the controller, the provider and the
\* block command, the document left as it is.
SessionNext ==
    \/ ToggleAutoInterpret
    \/ \E l \in Languages : ChangeConfiguration(l)
    \/ \E present \in BOOLEAN : ChangeActiveEditor(present)
    \/ \E k \in 1..Len(timers) : TimerFires(k)
    \/ \E k \in 1..Len(invocations) : ProviderBegin(k)
    \/ \E k \in 1..Len(invocations) :
           /\ invocations[k].state = "await"
           /\ \E resp \in ServiceResponses(Trim(invocations[k].line),
                                           KeyLanguage(invocations[k].key)) :
                  ProviderResume(k, resp)
    \/ InterpretFileByBlocks
    \/ /\ blockRun.state = "await"
       /\ \E resp \in ServiceResponses(blockRun.blocks[blockRun.i + 1].code,
                                       blockRun.language) :
              InterpretBlockResume(resp)

SpecSession == SessionInit /\ [][SessionNext]_vars

\* The block command on a document that is being edited, auto-interpret
\* left off.
BlockLineTexts == {<<"if", "{", "}">>, <<"for", "{", "}">>}

BlockDocs == [1..1 -> BlockLineTexts]

BlockInit ==
    /\ CtlIdle
    /\ RenderIdle
    /\ BlockIdle
    /\ CommentIdle
    /\ EphemeralIdle
    /\ language = "English"
    /\ document \in BlockDocs
    /\ interpretationCache = EmptyMap
    /\ calls = << >>
    /\ clock = 0
    /\ ExtractIdle

BlockNext ==
    \/ \E l \in Languages : ChangeConfiguration(l)
    \/ \E text \in BlockLineTexts : ChangeDocument(0, Len(document) - 1, text)
    \/ InterpretFileByBlocks
    \/ /\ blockRun.state = "await"
       /\ \E resp \in ServiceResponses(blockRun.blocks[blockRun.i + 1].code,
                                       blockRun.language) :
              InterpretBlockResume(resp)

SpecBlock == BlockInit /\ [][BlockNext]_vars

\* ------------------------------------------- interpretation of one line
\* what interpretLineAtPosition leaves alone
positionFrame ==
    <<language, document, interpretationCache, calls, clock, extractVars, renderVars,
      commentVars, ephemeralVars, isAutoInterpretEnabled, inlayHintsProvider, liveProviders,
      statusBarText, activeEditor, timers, invocations, returned, blockInterpretationCache,
      blockRun>>

\* interpretLineAtPosition(lineNumber) up to the fetch of interpretLine, which
\* reads the language setting for the request.
InterpretLineAtPosition(lineNumber) ==
    /\ activeEditor
    /\ positionCall.state # "await"
    /\ lineNumber < Len(document)
    /\ IsHintLine(Trim(document[lineNumber + 1]))
    /\ positionCall' = [state |-> "await", lineNumber |-> lineNumber,
                        lineText |-> Trim(document[lineNumber + 1]), language |-> language]
    /\ lastEvent' = Event("position", {"fetch"})
    /\ UNCHANGED <<lineCache, positionFrame>>

\* interpretLine resolves: the language setting is read for the key and the
\* explanation is stored.
InterpretLineAtPositionResume(resp) ==
    /\ positionCall.state = "await"
    /\ lineCache' = MapSet(lineCache,
                           LineKey(positionCall.lineNumber, positionCall.lineText, language),
                           SingleExplanation(resp))
    /\ positionCall' = [positionCall EXCEPT !.state = "done"]
    /\ lastEvent' = Event("position", {"store"})
    /\ UNCHANGED positionFrame

PositionInit ==
    /\ CtlIdle
    /\ RenderIdle
    /\ BlockIdle
    /\ CommentIdle
    /\ EphemeralIdle
    /\ language = "English"
    /\ document \in SessionDocs
    /\ interpretationCache = EmptyMap
    /\ calls = << >>
    /\ clock = 0
    /\ ExtractIdle

\* The session with the current-line command: the language setting changes
\* while requests of the provider and of the command are in flight.
PositionNext ==
    \/ ToggleAutoInterpret
    \/ \E l \in Languages : ChangeConfiguration(l)
    \/ \E k \in 1..Len(timers) : TimerFires(k)
    \/ \E k \in 1..Len(invocations) : ProviderBegin(k)
    \/ \E k \in 1..Len(invocations) :
           /\ invocations[k].state = "await"
           /\ \E resp \in ServiceResponses(Trim(invocations[k].line),
                                           KeyLanguage(invocations[k].key)) :
                  ProviderResume(k, resp)
    \/ \E lineNumber \in 0..(Len(document) - 1) : InterpretLineAtPosition(lineNumber)
    \/ /\ positionCall.state = "await"
       /\ \E resp \in ServiceResponses(positionCall.lineText, positionCall.language) :
              InterpretLineAtPositionResume(resp)

SpecPosition == PositionInit /\ [][PositionNext]_vars

\* =====================================================================
\* The persistent interpretation commands
\* =====================================================================
Run(command, selections, before, lines, r, annotations, after, applied) ==
    [command |-> command, selections |-> selections, languageId |-> languageId,
     before |-> before, lines |-> lines, explanations |-> r.map, failed |-> r.failed,
     annotations |-> annotations, after |-> after, applied |-> applied,
     insertedBefore |-> insertedComments,
     codeLines |-> r.codeLines, requests |-> r.requests, items |-> r.items]

\* the early return before interpretLines is called
NoResult ==
    [map |-> EmptyMap, cache |-> interpretationCache, failed |-> FALSE,
     codeLines |-> << >>, requests |-> 0, items |-> << >>]

\* interpretFileLineByLine() of the line-by-line variant
InterpretFileLineByLine(resp) ==
    /\ Len(runs) < MaxRuns
    /\ LET lines == FileLines(document, 0) IN
       IF lines = << >>
       THEN /\ runs' = Append(runs, Run("file", << >>, document, lines, NoResult, << >>,
                                        document, FALSE))
            /\ UNCHANGED <<document, interpretationCache>>
       ELSE LET codeLines == [k \in 1..Len(lines) |-> lines[k].code]
                r == interpretLines(codeLines, resp, interpretationCache, language)
                after == RenderBelowLines(document, languageId, lines, r.map, Len(lines) - 1)
            IN /\ document' = after
               /\ interpretationCache' = r.cache
               /\ runs' = Append(runs,
                      Run("file", << >>, document, lines, r,
                          [k \in 1..Len(lines) |-> ExplanationOr(r.map, k - 1)], after, TRUE))
    /\ UNCHANGED <<insertedComments, renderFrame>>

\* interpretSelectedLines() of the batch variant, with updateInlayHints and
\* insertCommentsAsExplanations
InterpretSelectedLines(selections, resp) ==
    /\ Len(runs) < MaxRuns
    /\ LET lines == IF selections = << >> \/ \A k \in 1..Len(selections) : selections[k].isEmpty
                    THEN << >>
                    ELSE SelectedLines(document, SelectedLineSet(selections, << >>))
       IN IF lines = << >>
          THEN /\ runs' = Append(runs, Run("selected", selections, document, lines, NoResult,
                                           << >>, document, FALSE))
               /\ UNCHANGED <<document, interpretationCache, insertedComments>>
          ELSE LET codeLines == [k \in 1..Len(lines) |-> lines[k].code]
                   r == interpretLines(codeLines, resp, interpretationCache, language)
                   lineNumberMap == LineNumberMap(lines, r.map)
                   e == insertCommentsAsExplanations(document, languageId, lineNumberMap,
                                                     insertedComments)
               IN /\ document' = e.doc
                  /\ interpretationCache' = r.cache
                  /\ insertedComments' = e.insertedSet
                  /\ runs' = Append(runs,
                         Run("selected", selections, document, lines, r,
                             [k \in 1..Len(lines) |-> lineNumberMap[lines[k].lineNumber]],
                             e.doc, e.applied))
    /\ UNCHANGED renderFrame

\* select all, the first line, or just a cursor
RenderSelections(doc) ==
    {<<Selection(0, Len(doc) - 1, FALSE)>>, <<Selection(0, 0, FALSE)>>,
     <<Selection(0, 0, TRUE)>>}

RenderInit ==
    /\ document \in RenderDocs
    /\ languageId \in RenderLanguageIds
    /\ insertedComments = {}
    /\ runs = << >>
    /\ ClientIdle
    /\ ExtractIdle
    /\ CtlIdle
    /\ BlockIdle
    /\ CommentIdle
    /\ EphemeralIdle

RenderNext ==
    \/ \E resp \in RenderResponses(Len(FileLines(document, 0))) : InterpretFileLineByLine(resp)
    \/ \E selections \in RenderSelections(document) :
           \E resp \in RenderResponses(
                        Len(SelectedLines(document, SelectedLineSet(selections, << >>)))) :
               InterpretSelectedLines(selections, resp)

SpecRender == RenderInit /\ [][RenderNext]_vars

\* interpretSelectedLines() of the line-by-line variant: the selected code
\* lines, one request, and insertCommentBelowLine for each unit from the last
\* of `lines` to the first.
InterpretSelectedLinesBelow(selections, resp) ==
    /\ Len(runs) < MaxRuns
    /\ LET lines == IF selections = << >> \/ \A k \in 1..Len(selections) : selections[k].isEmpty
                    THEN << >>
                    ELSE SelectedLines(document, SelectedLineSet(selections, << >>))
       IN IF lines = << >>
          THEN /\ runs' = Append(runs, Run("selectedBelow", selections, document, lines,
                                           NoResult, << >>, document, FALSE))
               /\ UNCHANGED <<document, interpretationCache>>
          ELSE LET codeLines == [k \in 1..Len(lines) |-> lines[k].code]
                   r == interpretLines(codeLines, resp, interpretationCache, language)
                   after == RenderBelowLines(document, languageId, lines, r.map, Len(lines) - 1)
               IN /\ document' = after
                  /\ interpretationCache' = r.cache
                  /\ runs' = Append(runs,
                         Run("selectedBelow", selections, document, lines, r,
                             [k \in 1..Len(lines) |-> ExplanationOr(r.map, k - 1)],
                             after, TRUE))
    /\ UNCHANGED <<insertedComments, renderFrame>>

\* select all; the first and the last line, in either order
OrderedSelections(doc) ==
    {<<Selection(0, Len(doc) - 1, FALSE)>>,
     <<Selection(0, 0, FALSE), Selection(Len(doc) - 1, Len(doc) - 1, FALSE)>>,
     <<Selection(Len(doc) - 1, Len(doc) - 1, FALSE), Selection(0, 0, FALSE)>>}

\* The documents and responses the three persistent commands are compared on.
OrderLineTexts == {<<" ", "a">>, <<"b">>, <<"//", "c">>}

OrderDocs == UNION {[1..n -> OrderLineTexts] : n \in 1..MaxDocLines}

\* explanations for the lines 1..n, last line first
ReversedList(n) == [k \in 1..n |-> Item(n + 1 - k, ExplTok(n + 1 - k))]

OrderResponses(n) ==
    {Ok200(Json(ExplObj(FullList(n)))), Ok200(Json(ExplObj(ReversedList(n)))),
     Err500(Json(ErrObj(<<"rate limited">>)))}

OrderInit ==
    /\ document \in OrderDocs
    /\ languageId \in {"plaintext", "python"}
    /\ insertedComments = {}
    /\ runs = << >>
    /\ ClientIdle
    /\ ExtractIdle
    /\ CtlIdle
    /\ BlockIdle
    /\ CommentIdle
    /\ EphemeralIdle

\* The three persistent commands, the selections given in any order.
OrderNext ==
    \/ \E resp \in OrderResponses(Len(FileLines(document, 0))) : InterpretFileLineByLine(resp)
    \/ \E selections \in OrderedSelections(document) :
           \E resp \in OrderResponses(
                        Len(SelectedLines(document, SelectedLineSet(selections, << >>)))) :
               InterpretSelectedLinesBelow(selections, resp)
    \/ \E selections \in OrderedSelections(document) :
           \E resp \in OrderResponses(
                        Len(SelectedLines(document, SelectedLineSet(selections, << >>)))) :
               InterpretSelectedLines(selections, resp)

SpecOrder == OrderInit /\ [][OrderNext]_vars

\* =====================================================================
\* The comment text of the batch renderer
\* =====================================================================
commentFrame ==
    <<language, document, interpretationCache, calls, clock, extractVars, ctlVars, renderVars,
      blockVars, ephemeralVars>>

\* The body of the loop of insertCommentsAsExplanations from the indentation
\* on: the explanation is cleaned and laid out as comment lines.
WriteComment ==
    /\ commentInput.explanation # << >>
    /\ commentText = << >>
    /\ commentText' = CommentLines(commentInput.indent, commentInput.languageId,
                                   CleanExplanation(commentInput.explanation))
    /\ UNCHANGED <<commentInput, commentFrame>>

\* Words of 60 and of 100 letters.
Word60 == "aaaaaaaaaaaaaaaaaaaaaaaaaaaaaaaaaaaaaaaaaaaaaaaaaaaaaaaaaaaa"
Word100 == "bbbbbbbbbbbbbbbbbbbbbbbbbbbbbbbbbbbbbbbbbbbbbbbbbbbbbbbbbbbbbbbbbbbbbbbbbbbbbbbbbbbbbbbbbbbbbbbbbbbb"

\* The characters and words the explanations are made of.
Pieces == {"/", "#", "-", "*", "<", "!", " ", "\n", "x", Word60, Word100}

CommentTexts == UNION {[1..n -> Pieces] : n \in 1..MaxPieces}

CommentInit ==
    /\ commentInput \in [explanation : CommentTexts,
                         indent : {<< >>, <<" ", " ", " ", " ">>},
                         languageId : {"plaintext", "html"}]
    /\ commentText = << >>
    /\ document = << >>
    /\ ClientIdle
    /\ ExtractIdle
    /\ CtlIdle
    /\ RenderIdle
    /\ BlockIdle
    /\ EphemeralIdle

CommentNext == WriteComment

SpecComment == CommentInit /\ [][CommentNext]_vars

\* =====================================================================
\* The mapping variant: hints kept per line number
\* =====================================================================
ephemeralFrame ==
    <<language, calls, clock, extractVars, ctlVars, renderVars, blockVars, commentVars>>

\* getInterpretationLanguage() of the mapping variant
MappingLanguage == "Korean"

\* explanations.forEach((explanation, lineNumber) => lineMap.set(lineNumber, explanation))
MergeHints(lineMap, explanations) ==
    [l \in (DOMAIN lineMap) \cup (DOMAIN explanations) |->
        IF l \in DOMAIN explanations THEN explanations[l] ELSE lineMap[l]]

\* a text with ch put in front of the character at index c, and with that character removed
InsertAt(text, c, ch) == SubSeq(text, 1, c) \o <<ch>> \o SubSeq(text, c + 1, Len(text))

RemoveChar(text, c) == SubSeq(text, 1, c) \o SubSeq(text, c + 2, Len(text))

\* interpretFileLineByLine() of the mapping variant up to the first edit of
\* updateInlayHints: the explanations are stored under the line numbers and
\* a blank is inserted at the end of the last line.
InterpretFileMapped(resp) ==
    /\ repaint.state = "idle"
    /\ Len(document[Len(document)]) <= MaxLineLength
    /\ LET lines == FileLines(document, 0) IN
       /\ lines # << >>
       /\ LET codeLines == [k \in 1..Len(lines) |-> lines[k].code]
              r == interpretLines(codeLines, resp, interpretationCache, MappingLanguage)
              lastLine == Len(document) - 1
              endPosition == [line |-> lastLine, character |-> Len(document[lastLine + 1])]
          IN /\ interpretationCache' = r.cache
             /\ inlayHintsData' = MergeHints(inlayHintsData, LineNumberMap(lines, r.map))
             /\ document' = [document EXCEPT ![lastLine + 1] = @ \o <<" ">>]
             /\ repaint' = [state |-> "inserted", endPosition |-> endPosition,
                            space |-> endPosition, gone |-> FALSE]
    /\ UNCHANGED <<mappingHints, userEdits, ephemeralFrame>>

\* The second edit of updateInlayHints: delete the range from endPosition to
\* one character after it, the editor clamping the range to the document.
RepaintDelete ==
    /\ repaint.state = "inserted"
    /\ LET p == repaint.endPosition IN
       document' = IF p.line < Len(document) /\ p.character < Len(document[p.line + 1])
                   THEN [document EXCEPT ![p.line + 1] = RemoveChar(@, p.character)]
                   ELSE document
    /\ repaint' = NoRepaint
    /\ UNCHANGED <<interpretationCache, inlayHintsData, mappingHints, userEdits, ephemeralFrame>>

\* The user types a character at a column of a line.
UserTypes(l, c, ch) ==
    /\ userEdits < MaxUserEdits
    /\ l < Len(document)
    /\ c <= Len(document[l + 1])
    /\ Len(document[l + 1]) < MaxLineLength
    /\ document' = [document EXCEPT ![l + 1] = InsertAt(@, c, ch)]
    /\ repaint' = IF repaint.state = "inserted" /\ ~repaint.gone /\ repaint.space.line = l
                     /\ c <= repaint.space.character
                  THEN [repaint EXCEPT !.space.character = @ + 1]
                  ELSE repaint
    /\ userEdits' = userEdits + 1
    /\ UNCHANGED <<interpretationCache, inlayHintsData, mappingHints, ephemeralFrame>>

\* The user inserts a line in front of line l.
UserInsertsLine(l, text) ==
    /\ userEdits < MaxUserEdits
    /\ l < Len(document)
    /\ Len(document) < MaxDocLines
    /\ document' = SubSeq(document, 1, l) \o <<text>> \o SubSeq(document, l + 1, Len(document))
    /\ repaint' = IF repaint.state = "inserted" /\ ~repaint.gone /\ l <= repaint.space.line
                  THEN [repaint EXCEPT !.space.line = @ + 1]
                  ELSE repaint
    /\ userEdits' = userEdits + 1
    /\ UNCHANGED <<interpretationCache, inlayHintsData, mappingHints, ephemeralFrame>>

\* The user deletes line l.
UserDeletesLine(l) ==
    /\ userEdits < MaxUserEdits
    /\ l < Len(document)
    /\ Len(document) > 1
    /\ document' = SubSeq(document, 1, l) \o SubSeq(document, l + 2, Len(document))
    /\ repaint' = IF repaint.state = "inserted" /\ ~repaint.gone
                  THEN (IF l = repaint.space.line THEN [repaint EXCEPT !.gone = TRUE]
                        ELSE IF l < repaint.space.line
                        THEN [repaint EXCEPT !.space.line = @ - 1]
                        ELSE repaint)
                  ELSE repaint
    /\ userEdits' = userEdits + 1
    /\ UNCHANGED <<interpretationCache, inlayHintsData, mappingHints, ephemeralFrame>>

\* One inlay hint; lineText is the text of the line when the hint was made.
MappingHint(doc, lineNumber, explanation) ==
    [line |-> lineNumber, character |-> Len(doc[lineNumber + 1]),
     label |-> <<" ", Bulb, " ">> \o explanation, explanation |-> explanation,
     lineText |-> doc[lineNumber + 1]]

\* for (lineNumber = range.start.line; lineNumber <= range.end.line; lineNumber++)
RECURSIVE MappingHints(_, _, _)
MappingHints(doc, lineMap, lineNumber) ==
    IF lineNumber >= Len(doc) THEN << >>
    ELSE (IF lineNumber \in DOMAIN lineMap /\ lineMap[lineNumber] # << >>
          THEN <<MappingHint(doc, lineNumber, lineMap[lineNumber])>>
          ELSE << >>) \o MappingHints(doc, lineMap, lineNumber + 1)

\* provideInlayHints of the mapping variant, asked for the whole document
ProvideMappingHints ==
    /\ mappingHints' = MappingHints(document, inlayHintsData, 0)
    /\ UNCHANGED <<document, interpretationCache, inlayHintsData, repaint, userEdits,
                   ephemeralFrame>>

\* The answers of the service: every line explained, or a failure.
MappingResponses(codeLines) ==
    {Ok200(Json(ExplObj([k \in 1..Len(codeLines) |->
                            Item(k, Explains(codeLines[k], MappingLanguage))]))),
     Err500(Json(ErrObj(<<"rate limited">>)))}

MappingLineTexts == {<<"a">>, <<"c">>}

MappingDocs == UNION {[1..n -> MappingLineTexts] : n \in 1..2}

EphemeralInit ==
    /\ document \in MappingDocs
    /\ inlayHintsData = EmptyMap
    /\ repaint = NoRepaint
    /\ mappingHints = << >>
    /\ userEdits = 0
    /\ ClientIdle
    /\ ExtractIdle
    /\ CtlIdle
    /\ RenderIdle
    /\ BlockIdle
    /\ CommentIdle

EphemeralNext ==
    \/ \E resp \in MappingResponses([k \in 1..Len(FileLines(document, 0)) |->
                                        FileLines(document, 0)[k].code]) :
           InterpretFileMapped(resp)
    \/ RepaintDelete
    \/ \E l \in 0..(Len(document) - 1) : \E c \in 0..MaxLineLength : UserTypes(l, c, "b")
    \/ \E l \in 0..(Len(document) - 1) : UserInsertsLine(l, <<"b">>)
    \/ \E l \in 0..(Len(document) - 1) : UserDeletesLine(l)
    \/ ProvideMappingHints

SpecEphemeral == EphemeralInit /\ [][EphemeralNext]_vars

\* ------------------------------------------------- controller properties
Disabled == ~isAutoInterpretEnabled

AutoInterpreting == isAutoInterpretEnabled

\* The parts of C4 that do not mention the repaint.
TwoStateStep ==
    /\ (isAutoInterpretEnabled' # isAutoInterpretEnabled => lastEvent'.name = "toggle")
    /\ (lastEvent'.name = "toggle" => isAutoInterpretEnabled' = ~isAutoInterpretEnabled)
    /\ (Disabled /\ AutoInterpreting' =>
            /\ liveProviders = 0 /\ liveProviders' = 1
            /\ inlayHintsProvider' = "registration")
    /\ (AutoInterpreting /\ Disabled' =>
            /\ liveProviders = 1 /\ liveProviders' = 0
            /\ inlayHintsProvider' = "null"
            /\ lineCache' = EmptyMap)

\* C4 as stated: the controller starts Disabled, only the toggle changes the
\* state and every toggle flips it; entering AutoInterpreting registers the
\* provider and requests a repaint at once; leaving disposes the provider and
\* leaves the cache empty.
C4_TwoStateController ==
    /\ Disabled
    /\ [][/\ TwoStateStep
          /\ (Disabled /\ AutoInterpreting' => invocations' = RequestRepaint(invocations))]_vars

\* C4, amended: as C4, but the repaint is requested on entering
\* AutoInterpreting only when there is an active editor; without one the
\* toggle requests nothing.
C4_RepaintWithEditor ==
    /\ Disabled
    /\ [][/\ TwoStateStep
          /\ (Disabled /\ AutoInterpreting' =>
                 invocations' = IF activeEditor THEN RequestRepaint(invocations)
                                ELSE invocations)]_vars

\* C4 witness: a toggle has just entered AutoInterpreting with an editor
\* open: the provider is registered and the repaint request is pending.
C4_Witness ==
    /\ AutoInterpreting
    /\ lastEvent = Event("toggle", {"register", "repaint"})
    /\ liveProviders = 1
    /\ activeEditor
    /\ invocations = <<Requested>>

\* =====================================================================
\* Properties of the extractors
\* =====================================================================
CommentMarkers == {"//", "/*", "*", "#", "--", "'"}

BlankOrComment(line) == Trim(line) = << >> \/ Trim(line)[1] \in CommentMarkers

\* C5: in whole-file, selection and auto-interpret extraction and in the per-line
\* fallback of block mode, no unit comes from a line whose trimmed text is empty
\* or starts with //, /*, *, #, -- or '.
C5_NoCommentUnits ==
    \A k \in 1..Len(units) :
        /\ mode \in {"file", "selection", "auto"} =>
               ~BlankOrComment(document[units[k].lineNumber + 1])
        /\ mode = "blockFallback" =>
               ~BlankOrComment(document[units[k].startLine + 1])

\* The braces of the code lines of a document, in reading order.
BracePositions(doc) ==
    {<<i, j>> \in (1..Len(doc)) \X (1..6) :
        /\ j <= Len(doc[i])
        /\ doc[i][j] \in {"{", "}"}
        /\ IsHintLine(Trim(doc[i]))}

Before(p, q) == p[1] < q[1] \/ (p[1] = q[1] /\ p[2] <= q[2])

\* nesting depth right after the brace at position q
DepthAfter(doc, q) ==
    Cardinality({p \in BracePositions(doc) : Before(p, q) /\ doc[p[1]][p[2]] = "{"})
        - Cardinality({p \in BracePositions(doc) : Before(p, q) /\ doc[p[1]][p[2]] = "}"})

FirstBrace(doc) == CHOOSE p \in BracePositions(doc) : \A q \in BracePositions(doc) : Before(p, q)

LastBrace(doc) == CHOOSE p \in BracePositions(doc) : \A q \in BracePositions(doc) : Before(q, p)

\* The document holds exactly one well-formed brace block (its braces nest
\* inside one outermost pair) and the line that opens it is a block introducer.
OneBlock(doc) ==
    /\ BracePositions(doc) # {}
    /\ \A q \in BracePositions(doc) :
           IF q = LastBrace(doc) THEN DepthAfter(doc, q) = 0 ELSE DepthAfter(doc, q) > 0
    /\ IsBlockStart(Trim(doc[FirstBrace(doc)[1]]))

NoBraces(doc) == \A i \in 1..Len(doc) : \A j \in 1..Len(doc[i]) : doc[i][j] \notin {"{", "}"}

\* the lines parseCodeBlocks takes for code, in ascending order
RECURSIVE Ascending(_, _)
Ascending(set, from) ==
    IF set = {} THEN << >>
    ELSE IF from \in set THEN <<from>> \o Ascending(set \ {from}, from + 1)
    ELSE Ascending(set, from + 1)

SingleKinds == {"interpretBlock", "interpretLine", "autoInterpretLine"}

\* the service outcome is a failure: transport failure, non-2xx status,
\* unparsable body or error field
Failure(resp) ==
    \/ resp.rejects
    \/ ~resp.ok
    \/ resp.text.kind # "json"
    \/ Truthy(resp.text.val.error)

Completes(c) == c.phase = "returned" /\ ~c.rejected /\ c.explanation # << >>

ExplanationLine(text) == \E k \in 1..Len(text) : text[k] \in {Bulb, Brain}

HasAnnotation(doc) == \E p \in 1..Len(doc) : ExplanationLine(doc[p])

EndsWith(s, t) == Len(t) <= Len(s) /\ SubSeq(s, Len(s) - Len(t) + 1, Len(s)) = t

SelectAll(r) == r.selections = <<Selection(0, Len(r.before) - 1, FALSE)>>

\* runs j and j + 1 are the same command on the same lines: the whole file,
\* or everything selected
SameCommandTwice(j) ==
    /\ j + 1 <= Len(runs)
    /\ runs[j].command = runs[j + 1].command
    /\ runs[j].command = "selected" => SelectAll(runs[j]) /\ SelectAll(runs[j + 1])
    /\ runs[j].lines # << >>
    /\ ~HasAnnotation(runs[j].before)

\* C3: when the same persistent interpretation command runs twice in
\* succession on a document, every code line of the result is followed by
\* exactly one explanation comment: the second run replaces, never adds.
C3_RenderIdempotent ==
    \A j \in 1..Len(runs) :
        SameCommandTwice(j) =>
            LET d == runs[j + 1].after IN
            \A p \in 1..Len(d) :
                (~BlankOrComment(d[p]) /\ ~ExplanationLine(d[p])) =>
                    /\ p + 1 <= Len(d)
                    /\ ExplanationLine(d[p + 1])
                    /\ (p + 2 <= Len(d) => ~ExplanationLine(d[p + 2]))

\* the service returned one explanation for each of the n units
OnePerUnit(r, n) ==
    /\ ~r.failed
    /\ \A i \in 0..(n - 1) : i \in DOMAIN r.explanations /\ r.explanations[i] # << >>

QualifyingLines(doc) == {p \in 0..(Len(doc) - 1) : ~BlankOrComment(doc[p + 1])}

\* doc with, below each qualifying line, the comment of its explanation
RECURSIVE Annotated(_, _, _, _, _)
Annotated(doc, lang, explanations, p, k) ==
    IF p >= Len(doc) THEN << >>
    ELSE IF p \in QualifyingLines(doc)
    THEN <<doc[p + 1], <<CommentMap(lang), " ", Bulb, " ">> \o explanations[k]>>
             \o Annotated(doc, lang, explanations, p + 1, k + 1)
    ELSE <<doc[p + 1]>> \o Annotated(doc, lang, explanations, p + 1, k)

FileRunWithExplanations(r) ==
    /\ r.command = "file"
    /\ ~HasAnnotation(r.before)
    /\ OnePerUnit(r, Cardinality(QualifyingLines(r.before)))

NoCommentBelowCode(doc, lang) ==
    \A p \in QualifyingLines(doc) :
        p + 1 < Len(doc) => ~StartsWith(Trim(doc[p + 2]), CommentMap(lang))

Written(r, text) ==
    IF r.command = "file" THEN <<Bulb, " ">> \o text
    ELSE <<Brain, " ">> \o CleanExplanation(text) \o getCommentSuffix(r.languageId)

\* C10: a unit whose index has no entry in the batch result is annotated with
\* 'No explanation available', every other unit with its own explanation, and
\* the edit puts these texts into the document.
C10_MissingExplanationPlaceholder ==
    \A j \in 1..Len(runs) :
        \A i \in 0..(Len(runs[j].lines) - 1) :
            LET r == runs[j]
                text == IF i \in DOMAIN r.explanations THEN r.explanations[i]
                        ELSE <<"No explanation available">>
            IN /\ r.annotations[i + 1] = text
               /\ r.applied => \E p \in 1..Len(r.after) : EndsWith(r.after[p], Written(r, text))

\* C10 witness: a run of two units whose result lacks the second one.
C10_Witness ==
    \E j \in 1..Len(runs) :
        /\ Len(runs[j].lines) = 2
        /\ ~runs[j].failed
        /\ DOMAIN runs[j].explanations = {0}
        /\ runs[j].applied
        /\ runs[j].annotations[2] = <<"No explanation available">>

\* =====================================================================
\* Properties of the auto-interpret provider
\* =====================================================================
WithinCap(lines, requests) ==
    /\ \A h \in 1..Len(lines) : lines[h] < 100
    /\ requests <= 100

\* C12: one invocation of the auto-interpret provider looks at the lines
\* 0..99 only: it emits no hint at line 100 or beyond and starts at most 100
\* requests, however long the document; the whole-file and the block
\* extraction take every code line of the document.
C12_AutoInterpretCap ==
    /\ \A k \in 1..Len(invocations) :
           /\ invocations[k].i < 100
           /\ WithinCap(HintedLines(invocations[k].hints), invocations[k].requests)
    /\ WithinCap(returned.lines, returned.requests)
    /\ mode \in {"file", "blocks", "blockFallback"} =>
           Len(units) = Cardinality(QualifyingLines(document))

\* C12 witness: on a document of 102 code lines the provider has returned 100
\* hints after 100 requests and the whole-file extraction has 102 units.
C12_Witness ==
    /\ Len(document) = 102
    /\ Len(returned.lines) = 100
    /\ returned.requests = 100
    /\ returned.lines[100] = 99
    /\ mode = "file"
    /\ Len(units) = 102

\* =====================================================================
\* Properties of the explanation client
\* =====================================================================
Indices(c) == 0..(Len(c.codeLines) - 1)

\* a finished interpretLines call that went to the network
NetBatch(c) == c.kind = "batch" /\ c.phase = "returned" /\ c.fetched

\* the call was answered with a non-2xx status and the body {"error": m}
ErrorBody500(c, m) == NetBatch(c) /\ c.resp = Err500(Json(ErrObj(m)))

NetworkPhrase(m) ==
    Includes(m, "Failed to fetch") \/ Includes(m, "NetworkError") \/ Includes(m, "The request")

\* C1 (as stated): a non-2xx answer with body {"error": m} gives every index
\* of the request array the string 'Error: Server error: ' followed by m.
C1_ServerErrorPrefix ==
    \A i \in 1..Len(calls) : \A m \in ErrorTexts :
        ErrorBody500(calls[i], m) =>
            calls[i].map = [x \in Indices(calls[i]) |-> <<"Error: ", "Server error: ">> \o m]

\* C1 (amended): a non-2xx answer with body {"error": m}, m not empty and free
\* of the transport-failure phrases, gives every index of the request array the
\* string 'Error: ' followed by m, without the 'Server error: ' prefix.
C1_ErrorMessageOnly ==
    \A i \in 1..Len(calls) : \A m \in ErrorTexts :
        (ErrorBody500(calls[i], m) /\ ~NetworkPhrase(m)) =>
            calls[i].map = [x \in Indices(calls[i]) |-> <<"Error: ">> \o m]

C1_Witness ==
    \E i \in 1..Len(calls) :
        /\ ErrorBody500(calls[i], <<"rate limited">>)
        /\ Len(calls[i].codeLines) = 2

\* the cache entry of call i was neither cleared nor overwritten before call j began
Undisturbed(i, j) ==
    \A k \in 1..Len(calls) :
        (calls[i].endT < calls[k].endT /\ calls[k].endT < calls[j].startT) =>
            /\ calls[k].kind # "config"
            /\ ~(calls[k].stored /\ calls[k].key = calls[i].key)

\* C2: after a first interpretLines call that received an explanations list, a
\* second call with the same array and language, with no language change in
\* between, issues no network request and returns the same map as the first.
C2_CacheIdempotence ==
    \A i \in 1..Len(calls) : \A j \in 1..Len(calls) :
        (/\ NetBatch(calls[i]) /\ calls[i].stored
         /\ calls[j].kind = "batch" /\ calls[j].phase = "returned"
         /\ calls[i].endT < calls[j].startT
         /\ calls[j].codeLines = calls[i].codeLines
         /\ calls[j].language = calls[i].language
         /\ Undisturbed(i, j))
        => (~calls[j].fetched /\ calls[j].map = calls[i].map)

\* the 2xx response whose top level is {"body": <P as a JSON string>}
IsWrapped(resp) ==
    /\ ~resp.rejects /\ resp.ok /\ resp.text.kind = "json"
    /\ resp.text.val.body # None
    /\ resp.text.val.body[1].kind = "json"
    /\ resp.text.val = WrapObj(resp.text.val.body[1])

\* the 2xx response that is the payload itself
Unwrapped(resp) == Ok200(resp.text.val.body[1])

BatchFails(resp) ==
    \/ resp.rejects
    \/ ~resp.ok
    \/ resp.text.kind = "garbage"
    \/ Truthy(resp.text.val.error)
    \/ /\ resp.text.val.body = None
       /\ resp.text.val.explanations = None
    \/ /\ resp.text.val.body # None
       /\ \/ resp.text.val.body[1].kind = "garbage"
          \/ Truthy(resp.text.val.body[1].val.error)
          \/ resp.text.val.body[1].val.explanations = None

\* C9: when the batch request fails as a whole, the returned map has an entry
\* for every index 0..n-1 and all entries are the same string 'Error: <message>'.
C9_SameErrorForAll ==
    \A i \in 1..Len(calls) :
        (NetBatch(calls[i]) /\ BatchFails(calls[i].resp)) =>
            /\ DOMAIN calls[i].map = Indices(calls[i])
            /\ \A x \in Indices(calls[i]) :
                   /\ calls[i].map[x] = calls[i].map[0]
                   /\ Len(calls[i].map[x]) >= 2
                   /\ calls[i].map[x][1] = "Error: "

C9_Witness ==
    \E i \in 1..Len(calls) :
        /\ NetBatch(calls[i]) /\ BatchFails(calls[i].resp)
        /\ Len(calls[i].codeLines) = 2
        /\ calls[i].resp.ok
        /\ calls[i].resp.text.val.body # None

\* =====================================================================
\* Properties of the session caches
\* =====================================================================
\* a step that handles a change of the interpretation language
ConfigurationHandled == language' # language

\* C13 as stated: once a change of the interpretation language has been
\* handled, every explanation cache of the session (the line cache, the block
\* cache, the batch cache) is empty, in either controller state, and when the
\* session is AutoInterpreting a repaint has been scheduled.
C13_ConfigClearsEveryCache ==
    [][ConfigurationHandled =>
          /\ lineCache' = EmptyMap
          /\ blockInterpretationCache' = EmptyMap
          /\ interpretationCache' = EmptyMap
          /\ (AutoInterpreting' => timers' = Append(timers, "config300"))]_vars

\* C13, amended: once a change of the interpretation language has been
\* handled, the line cache is empty, in either controller state; the block
\* cache is as it was; a repaint is scheduled when the session is
\* AutoInterpreting and an editor is active, and only then.
C13_ConfigClearsLineCache ==
    [][ConfigurationHandled =>
          /\ lineCache' = EmptyMap
          /\ blockInterpretationCache' = blockInterpretationCache
          /\ timers' = IF AutoInterpreting /\ activeEditor
                       THEN Append(timers, "config300") ELSE timers]_vars

\* C13 witness: while AutoInterpreting with an editor open, the language
\* change has just been handled: it dropped entries of the line cache and
\* scheduled the repaint, and the block cache still has an entry.
C13_Witness ==
    /\ AutoInterpreting
    /\ activeEditor
    /\ lastEvent = Event("config", {"clearCache", "dropEntries", "timer"})
    /\ lineCache = EmptyMap
    /\ timers # << >>
    /\ timers[Len(timers)] = "config300"
    /\ blockInterpretationCache # EmptyMap

\* the text and the language a key of the line cache was made from
KeyText(key) == SubSeq(key, 5, Len(key) - 2)

\* a value that reports a failure of the request
IsErrorString(v) == v # << >> /\ v[1] \in {"Error: ", "Error during interpretation: "}

\* an explanation the service gave for this code text in this language, or
\* the report of a failed request
ObtainedFor(v, code, lang) == IsErrorString(v) \/ v = Explains(code, lang)

\* C16: whatever interpret operations and document edits came before, a hit
\* in the line cache or in the block cache gives an explanation that was
\* obtained for the code text and the language of the unit looked up: every
\* entry of the line cache was obtained for the text and language its key
\* names, and every decoration taken from the block cache shows an
\* explanation obtained for the block's present code and the language of the
\* lookup.
C16_CacheHitSameCodeAndLanguage ==
    /\ \A key \in DOMAIN lineCache :
           ObtainedFor(lineCache[key], KeyText(key), KeyLanguage(key))
    /\ \A k \in 1..Len(blockRun.decorations) :
           LET dec == blockRun.decorations[k] IN
           dec.fromCache => ObtainedFor(dec.explanation, dec.unit.code, dec.language)

\* C17: no cache holds an error string, a failed request having left every
\* cache as it was, and no decoration of the block command shows an error
\* taken from the cache: the unit that failed is requested again.
C17_NoErrorCached ==
    /\ \A key \in DOMAIN lineCache : ~IsErrorString(lineCache[key])
    /\ \A key \in DOMAIN blockInterpretationCache :
           ~IsErrorString(blockInterpretationCache[key])
    /\ \A key \in DOMAIN interpretationCache :
           /\ interpretationCache[key].kind = "json"
           /\ interpretationCache[key].val.explanations # None
    /\ \A k \in 1..Len(blockRun.decorations) :
           blockRun.decorations[k].fromCache => ~IsErrorString(blockRun.decorations[k].explanation)

\* a step that handles a document change while AutoInterpreting
DocumentChangeHandled == AutoInterpreting /\ document' # document

\* the lines a step has given a new text: lines inside the change's range
EditedLines == {i \in 0..(Len(document) - 1) : document'[i + 1] # document[i + 1]}

\* C18: while AutoInterpreting, once a change of the active document has been
\* handled, the line cache has no entry whose key names an edited line index.
C18_EditedLinesPruned ==
    [][DocumentChangeHandled =>
          \A i \in EditedLines : \A key \in DOMAIN lineCache' : ~KeyIncludesLine(key, i)]_vars

\* C18 witness: while AutoInterpreting, a change of the line 0 has just been
\* handled: it dropped entries of the line cache, and the entry of line 1,
\* outside the change, is still there.
C18_Witness ==
    /\ AutoInterpreting
    /\ lastEvent = Event("document", {"prune", "timer", "dropEntries"})
    /\ \A key \in DOMAIN lineCache : ~KeyIncludesLine(key, 0)
    /\ \E key \in DOMAIN lineCache : KeyIncludesLine(key, 1)

\* the repaint timers of document changes that are pending
PendingDocumentTimers == {k \in 1..Len(timers) : timers[k] = "document1000"}

\* C19: while AutoInterpreting, the document changes that arrive within one
\* delay window are coalesced into a single repaint request, so at most one
\* repaint timer of a document change is pending at any time; and when that
\* timer fires, the repaint is requested.
C19_RepaintCoalesced ==
    /\ [](Cardinality(PendingDocumentTimers) <= 1)
    /\ [][\A k \in 1..Len(timers) :
              timers[k] = "document1000" /\ timers' = RemoveAt(timers, k)
                  => Len(invocations') = Len(invocations) + 1]_vars

\* =====================================================================
\* Properties of the order of the comment edits
\* =====================================================================
StrictlyDescending(seq) == \A k \in 1..(Len(seq) - 1) : seq[k] > seq[k + 1]

BelowCommands == {"file", "selectedBelow"}

\* The line numbers of a run's units in the order their edits are made: the
\* loop from the last unit to the first, or the sorted keys of the batch
\* renderer.
EditOrder(r) ==
    IF r.command \in BelowCommands
    THEN [k \in 1..Len(r.lines) |-> r.lines[Len(r.lines) + 1 - k].lineNumber]
    ELSE SortedLines({r.lines[k].lineNumber : k \in 1..Len(r.lines)})

\* The document at the moment the comment of unit k (counted from 0) is
\* inserted: the units after k have had theirs; the batch renderer makes all
\* its edits on the document as it was.
RECURSIVE DocWhenInserting(_, _)
DocWhenInserting(r, k) ==
    IF r.command \notin BelowCommands \/ k >= Len(r.lines) - 1 THEN r.before
    ELSE insertCommentBelowLine(DocWhenInserting(r, k + 1), r.languageId,
                                r.lines[k + 2].lineNumber, r.annotations[k + 2])

\* the recorded line number of unit k still denotes the unit's code line
PositionValid(r, k) ==
    LET doc == DocWhenInserting(r, k)
        lineNumber == r.lines[k + 1].lineNumber
    IN /\ lineNumber < Len(doc)
       /\ Trim(doc[lineNumber + 1]) = r.lines[k + 1].code

\* C14: in every persistent interpretation run (whole file or selection, the
\* selections in any number and order) the comment edits are made in strictly
\* descending line order, and when a unit's comment is inserted the unit's
\* recorded line number is still the line the unit was extracted from.
C14_DescendingEdits ==
    \A j \in 1..Len(runs) :
        runs[j].applied =>
            /\ StrictlyDescending(EditOrder(runs[j]))
            /\ \A k \in 0..(Len(runs[j].lines) - 1) : PositionValid(runs[j], k)

\* =====================================================================
\* Properties of the selection extraction
\* =====================================================================
SelectionCommands == {"selected", "selectedBelow"}

Covers(selection, i) == selection.start <= i /\ i <= selection.end

\* the lines of the document some selection covers
Covered(r) ==
    {i \in 0..(Len(r.before) - 1) : \E k \in 1..Len(r.selections) : Covers(r.selections[k], i)}

\* the first selection that covers line i
FirstCover(r, i) ==
    CHOOSE k \in 1..Len(r.selections) :
        /\ Covers(r.selections[k], i)
        /\ \A m \in 1..(k - 1) : ~Covers(r.selections[m], i)

UnitLines(r) == {r.lines[k].lineNumber : k \in 1..Len(r.lines)}

\* the units are the qualifying covered lines, each once, with its trimmed text
OneUnitPerCoveredLine(r) ==
    /\ UnitLines(r) = {i \in Covered(r) : IsCodeLine(Trim(r.before[i + 1]))}
    /\ \A a \in 1..Len(r.lines) : \A b \in 1..Len(r.lines) :
           a # b => r.lines[a].lineNumber # r.lines[b].lineNumber
    /\ \A k \in 1..Len(r.lines) : r.lines[k].code = Trim(r.before[r.lines[k].lineNumber + 1])

NonEmptySelection(r) ==
    /\ r.command \in SelectionCommands
    /\ \E k \in 1..Len(r.selections) : ~r.selections[k].isEmpty

\* C15 as stated: for every set of selections, in any order, the covered
\* lines are unioned, each qualifying line gives exactly one unit, and the
\* units come in ascending line order.
C15_SelectionUnitsAscending ==
    \A j \in 1..Len(runs) :
        NonEmptySelection(runs[j]) =>
            /\ OneUnitPerCoveredLine(runs[j])
            /\ \A k \in 1..(Len(runs[j].lines) - 1) :
                   runs[j].lines[k].lineNumber < runs[j].lines[k + 1].lineNumber

\* C15, amended: the covered lines are unioned and each qualifying line gives
\* exactly one unit; the units come in the order in which the selections,
\* taken as given, first cover their lines, and in ascending line order
\* within one selection.
C15_SelectionUnitsInCoverOrder ==
    \A j \in 1..Len(runs) :
        NonEmptySelection(runs[j]) =>
            LET r == runs[j] IN
            /\ OneUnitPerCoveredLine(r)
            /\ \A k \in 1..(Len(r.lines) - 1) :
                   LET a == r.lines[k].lineNumber
                       b == r.lines[k + 1].lineNumber
                   IN \/ FirstCover(r, a) < FirstCover(r, b)
                      \/ (FirstCover(r, a) = FirstCover(r, b) /\ a < b)

\* C15 witness: two selections given last line first, each with a code line:
\* two units, the one of the later line first.
C15_Witness ==
    \E j \in 1..Len(runs) :
        /\ NonEmptySelection(runs[j])
        /\ Len(runs[j].selections) = 2
        /\ runs[j].selections[1].start > runs[j].selections[2].end
        /\ Len(runs[j].lines) = 2
        /\ runs[j].lines[1].lineNumber > runs[j].lines[2].lineNumber


\* =====================================================================
\* The single round trip of a batch command
\* =====================================================================
\* The explanations of the entries of the array tagged with lineNumber k, in
\* the order of the array.
TaggedWith(items, k) ==
    SelectSeq(items, LAMBDA item : item.lineNumber = k)

\* forEach sets the entries in the order of the array: the last one tagged k stays.
LastTagged(items, k) == TaggedWith(items, k)[Len(TaggedWith(items, k))].explanation

\* C20: one run of the whole-file or of a selection command sends at most one
\* request however many units it has; the codeLines of the request are the
\* codes of the extracted units in the order of extraction; and the
\* explanation the answer tags with the 1-based line number k is the
\* annotation of the k-th unit.
C20_SingleRoundTrip ==
    \A j \in 1..Len(runs) :
        LET r == runs[j] IN
        /\ r.requests <= 1
        /\ r.lines # << >> =>
               /\ r.codeLines = [k \in 1..Len(r.lines) |-> r.lines[k].code]
               /\ \A k \in 1..Len(r.lines) :
                      TaggedWith(r.items, k) # << >> =>
                          r.annotations[k] = LastTagged(r.items, k)

\* C20 witness: a run of three units that sent one request and whose answer
\* lists the explanations last line first; each unit has its own explanation.
C20_Witness ==
    \E j \in 1..Len(runs) :
        /\ Len(runs[j].lines) = 3
        /\ runs[j].requests = 1
        /\ ~runs[j].failed
        /\ runs[j].items[1].lineNumber = 3
        /\ runs[j].annotations = <<ExplTok(1), ExplTok(2), ExplTok(3)>>

\* =====================================================================
\* Properties of the comment text
\* =====================================================================
\* what a comment line holds between the comment prefix and the suffix
CommentBody(line) ==
    SubSeq(line, Len(commentInput.indent) + Len(getCommentPrefix(commentInput.languageId)) + 1,
           Len(line) - Len(getCommentSuffix(commentInput.languageId)))

RECURSIVE JoinBodies(_)
JoinBodies(lines) ==
    IF Len(lines) = 1 THEN CommentBody(lines[1])
    ELSE CommentBody(lines[1]) \o <<" ">> \o JoinBodies(Tail(lines))

\* C21: no comment line written for an explanation is longer than 100
\* characters, and the lines are broken only between words: put together
\* again with one blank at each break they are the cleaned explanation.
C21_WrappedWithin100 ==
    commentText # << >> =>
        /\ \A k \in 1..Len(commentText) : Width(commentText[k]) <= 100
        /\ JoinBodies(commentText) = CleanExplanation(commentInput.explanation)

Occurs(s, p) == \E i \in 1..(Len(s) - Len(p) + 1) : SubSeq(s, i, i + Len(p) - 1) = p

EmbeddedMarkers ==
    {<<"/", "/">>, <<"#">>, <<"-", "-">>, <<"<", "!", "-", "-">>, <<"/", "*">>, <<"*", "/">>,
     <<"\n">>}

\* C22: the cleaned text written into the comment holds no //, #, --, <!--,
\* /* or */ and no line break.
C22_NoMarkerWritten ==
    \A k \in 1..Len(commentText) :
        \A marker \in EmbeddedMarkers : ~Occurs(CommentBody(commentText[k]), marker)

\* =====================================================================
\* Properties of the mapping variant
\* =====================================================================
RepaintDeleted == repaint.state = "inserted" /\ repaint'.state = "idle"

\* the document without the blank that the first edit inserted
WithoutInsertedBlank ==
    IF repaint.gone THEN document
    ELSE [document EXCEPT ![repaint.space.line + 1] = RemoveChar(@, repaint.space.character)]

\* C23: the delete of updateInlayHints removes the blank the insert put in
\* and no other character, whatever the user did in between: after the pair
\* the document is as the user's edits alone make it.
C23_RepaintCancels == [][RepaintDeleted => document' = WithoutInsertedBlank]_vars

\* C28: a hint made for line l carries an explanation obtained for the text
\* line l holds when the hint is made.
C28_HintForCurrentText ==
    \A h \in 1..Len(mappingHints) :
        ObtainedFor(mappingHints[h].explanation, Trim(mappingHints[h].lineText),
                    MappingLanguage)

\* =====================================================================
\* Properties of the status bar and the registration
\* =====================================================================
\* C24: in every state the status bar reads 'Interpretation On' exactly when
\* the auto-interpret flag is set, a hint provider is registered
\* (inlayHintsProvider is not null) exactly when the flag is set, and at most
\* one registration is live.
C24_StatusFlagProviderAgree ==
    /\ (statusBarText = "$(check) Interpretation On") <=> isAutoInterpretEnabled
    /\ (inlayHintsProvider # "null") <=> isAutoInterpretEnabled
    /\ liveProviders <= 1
    /\ isAutoInterpretEnabled => liveProviders = 1

\* C24 witness: the session has just been switched on again while an
\* invocation of an earlier enabled period is still waiting for its answer.
C24_Witness ==
    /\ isAutoInterpretEnabled
    /\ statusBarText = "$(check) Interpretation On"
    /\ inlayHintsProvider = "registration"
    /\ liveProviders = 1
    /\ lastEvent.name = "toggle"
    /\ \E k \in 1..Len(invocations) : invocations[k].state = "await"

\* =====================================================================
\* Properties of the provider while the session is Disabled
\* =====================================================================
\* a provider invocation calls interpretLine in this step
StartsRequest == lastEvent'.name = "provider" /\ "fetch" \in lastEvent'.effects

\* an entry is added to the line cache, or replaced, in this step
WritesCacheEntry ==
    \E key \in DOMAIN lineCache' : key \notin DOMAIN lineCache \/ lineCache'[key] # lineCache[key]

\* C29: while the session is Disabled no provider invocation starts a request
\* or writes a cache entry, an invocation that began while the session was
\* AutoInterpreting included.
C29_DisabledProviderIdle ==
    [][~isAutoInterpretEnabled => ~StartsRequest /\ ~WritesCacheEntry]_vars

\* =====================================================================
\* Properties of the line cache under language changes
\* =====================================================================
\* C26: whenever the language setting changes while requests are in flight,
\* every entry of the line cache, written by the provider or by
\* interpretLineAtPosition, holds an explanation that was requested in the
\* language its key names.
C26_EntryInKeyLanguage ==
    \A key \in DOMAIN lineCache :
        IsErrorString(lineCache[key])
            \/ lineCache[key] = Explains(KeyText(key), KeyLanguage(key))

\* =====================================================================
\* Properties of calls in flight together
\* =====================================================================
\* call j of interpretLines was made with the key of call i while call i was
\* waiting for its answer
InFlightTogether(i, j) ==
    /\ calls[i].kind = "batch" /\ calls[j].kind = "batch"
    /\ calls[i].key = calls[j].key
    /\ calls[i].fetched
    /\ calls[i].startT < calls[j].startT
    /\ calls[i].endT = 0 \/ calls[i].endT > calls[j].startT

\* no call stored an entry under the key between the start of i and that of j
NoStoreBetween(i, j) ==
    \A k \in 1..Len(calls) :
        ~(/\ calls[k].kind = "batch" /\ calls[k].key = calls[i].key /\ calls[k].stored
          /\ calls[k].endT > calls[i].startT /\ calls[k].endT < calls[j].startT)

BothResolved(i, j) == calls[i].phase = "returned" /\ calls[j].phase = "returned"

\* the one of the two that resolved last, the state being the one it left
LastResolved(i, j) == IF calls[i].endT > calls[j].endT THEN i ELSE j

JustResolved(i, j) == BothResolved(i, j) /\ clock = calls[LastResolved(i, j)].endT

\* C25 as stated: a second call made with the key of a call in flight misses
\* the cache and sends its own request, and once both have resolved the
\* cache holds an entry for the key.
C25_NoDeduplicationOneEntry ==
    \A i \in 1..Len(calls) : \A j \in 1..Len(calls) :
        InFlightTogether(i, j) =>
            /\ calls[j].fetched /\ ~calls[j].fromCache
            /\ JustResolved(i, j) => calls[i].key \in DOMAIN interpretationCache

\* C25: a second call made with the key of a call in flight, no entry having
\* been stored in between, misses the cache and sends its own request; when
\* the later answer is parsed successfully the cache holds, under the one
\* key, the text of that answer, and an answer that fails stores nothing.
C25_NoDeduplication ==
    \A i \in 1..Len(calls) : \A j \in 1..Len(calls) :
        InFlightTogether(i, j) =>
            /\ NoStoreBetween(i, j) => calls[j].fetched /\ ~calls[j].fromCache
            /\ JustResolved(i, j) =>
                   LET c == LastResolved(i, j)
                       f == FinishBatch(calls[c].codeLines, calls[c].resp)
                   IN /\ calls[c].stored <=> ~calls[c].failed
                      /\ calls[c].stored =>
                             /\ calls[c].key \in DOMAIN interpretationCache
                             /\ interpretationCache[calls[c].key] = f.store[1]
                      /\ (calls[i].failed /\ calls[j].failed /\ calls[j].fetched
                          /\ \A k \in 1..Len(calls) : k \in {i, j} \/ calls[k].kind # "batch")
                             => calls[c].key \notin DOMAIN interpretationCache

\* C25 witness: two calls with one key were in flight together, each sent a
\* request, both answers were stored, and the cache holds the later one.
C25_Witness ==
    \E i \in 1..Len(calls) : \E j \in 1..Len(calls) :
        /\ InFlightTogether(i, j)
        /\ calls[j].fetched
        /\ JustResolved(i, j)
        /\ calls[i].stored /\ calls[j].stored
        /\ calls[i].key \in DOMAIN interpretationCache

\* =====================================================================
\* Properties of the keys of the returned map
\* =====================================================================
\* C30: every key of the map a call of interpretLines has returned is an
\* index of the array of code lines the call was made with, whether the map
\* was built from a network response or replayed from the cache.
C30_KeysAreIndices ==
    \A i \in 1..Len(calls) :
        (calls[i].kind = "batch" /\ calls[i].phase = "returned") =>
            DOMAIN calls[i].map \subseteq 0..(Len(calls[i].codeLines) - 1)

\* =====================================================================
\* Properties of the user's lines under persistent rendering
\* =====================================================================
\* a comment line of the user's: it starts with a comment marker and carries
\* no explanation emoji
UserComment(text, lang) ==
    /\ ~ExplanationLine(text)
    /\ \E c \in CommentPatterns \cup {CommentMap(lang)} : StartsWith(Trim(text), c)

\* the lines of doc that are not explanation comments, in their order
KeptLines(doc) ==
    LET NotExplanation(text) == ~ExplanationLine(text) IN SelectSeq(doc, NotExplanation)

\* the run found a document in which every line is the user's
OnUserDocument(r) ==
    /\ r.applied
    /\ ~HasAnnotation(r.before)
    /\ r.insertedBefore = {}

\* C27: after a persistent interpretation run on a document the add-on has
\* not written to, a comment line of the user's that directly follows an
\* interpreted code line is still in the document with its text unchanged,
\* at its place among the user's lines.
C27_UserCommentKept ==
    \A j \in 1..Len(runs) :
        OnUserDocument(runs[j]) =>
            \A k \in 1..Len(runs[j].lines) :
                LET r == runs[j]
                    p == r.lines[k].lineNumber
                IN (p + 1 < Len(r.before) /\ UserComment(r.before[p + 2], r.languageId)) =>
                       /\ Len(KeptLines(r.after)) >= p + 2
                       /\ KeptLines(r.after)[p + 2] = r.before[p + 2]

====
